---- MODULE Spec2Model ----
(***************************************************************************)
(* ContextKeeper ingestion: the HTTP ingest handler, the job orchestrator, *)
(* the hosting-API client's retry protocol and the ingestion_jobs table.   *)
(***************************************************************************)
EXTENDS Integers, Sequences, FiniteSets, TLC

\* ------------------------------------------------------------------ bounds
\* Concurrent ingest requests (each owns at most one job).
MaxRequests == 1
\* Entities one listing response may carry.
MaxItems == 1
\* Entries the hosting API has in a listing when the client is called on its own.
MaxListing == 3
\* The largest limit the client is called with on its own.
MaxLimit == 2
\* Strings in a multi-valued field that is written and read back.
MaxListItems == 2
\* Rows of ingestion_jobs when the table's operations are called on their own.
MaxJobRows == 2

Requests == 1..MaxRequests

\* SQL NULL / a nil pointer. A time t is stored as <<t>>, an error text as a tuple.
NULL == <<>>

\* ------------------------------------------------------- hosting-API client
\* What one HTTP attempt can yield: a transport error, or a response with a
\* status, the X-RateLimit-Remaining header ("0" or not) and a body that
\* decodes or not.
NetErr == [net |-> TRUE, status |-> 0, remaining0 |-> FALSE, decodes |-> FALSE]

HttpResp(status, remaining0, decodes) ==
    [net |-> FALSE, status |-> status, remaining0 |-> remaining0, decodes |-> decodes]

Attempts ==
    { NetErr,
      HttpResp(200, FALSE, TRUE), HttpResp(200, FALSE, FALSE),
      HttpResp(403, TRUE, FALSE), HttpResp(403, FALSE, FALSE),
      HttpResp(404, FALSE, FALSE), HttpResp(429, TRUE, FALSE),
      HttpResp(500, FALSE, FALSE) }

\* Faulty variant: a first response with any error status is retried.
AttemptOutcome_RetriesClientErrors(attempt, a) ==
    IF a.net
    THEN IF attempt = 0 THEN "continue" ELSE "network"
    ELSE IF a.status = 403 /\ a.remaining0 THEN "ratelimit"
    ELSE IF a.status >= 400
         THEN IF attempt = 0 THEN "continue" ELSE "status"
    ELSE IF a.decodes THEN "nil" ELSE "decode"

\* One pass of the loop body for attempt number `attempt` (0 or 1) on response a:
\* "continue" (retry), or the returned error class ("nil" on success).
AttemptOutcome(attempt, a) ==
    IF a.net
    THEN IF attempt = 0 THEN "continue" ELSE "network"
    ELSE IF a.status = 403 /\ a.remaining0 THEN "ratelimit"
    ELSE IF a.status >= 400
         THEN IF attempt = 0 /\ a.status >= 500 THEN "continue" ELSE "status"
    ELSE IF a.decodes THEN "nil" ELSE "decode"

\* Faulty variant: a failed first attempt is returned without a second one.
makeRequestWithRetry_NoRetry(a1, a2) ==
    LET first == AttemptOutcome(0, a1) IN
    IF first # "continue"
    THEN [err |-> first, requests |-> 1]
    ELSE [err |-> AttemptOutcome(1, a1), requests |-> 1]

\* makeRequestWithRetry on the responses <<a1, a2>> the transport would give
\* to a first and a second attempt: the error class and the requests made.
makeRequestWithRetry(a1, a2) ==
    LET first == AttemptOutcome(0, a1) IN
    IF first # "continue"
    THEN [err |-> first, requests |-> 1]
    ELSE [err |-> AttemptOutcome(1, a2), requests |-> 2]

\* What the responses carry besides their status: a body (the value it decodes
\* to) and the X-RateLimit-Reset header.
Bodies == {"body1", "body2"}
ResetValues == {"reset1", "reset2"}

\* makeRequest: the call's error class, the requests made, the value decoded
\* into `result` and, in a rate-limit error, the reset value its text carries.
\* The response that ends the call is the last one received.
makeRequest(a1, a2, bodies, resets) ==
    LET ret == makeRequestWithRetry(a1, a2) IN
    [err      |-> ret.err,
     requests |-> ret.requests,
     result   |-> IF ret.err = "nil" THEN <<bodies[ret.requests]>> ELSE NULL,
     reset    |-> IF ret.err = "ratelimit" THEN <<resets[ret.requests]>> ELSE NULL]

\* Error classes a call can return.
RequestErrors == { makeRequestWithRetry(a1, a2).err : a1 \in Attempts, a2 \in Attempts }

\* ------------------------------------------------- wire shapes and entities
\* A value that may be absent (JSON null, a nil pointer or slice) is NULL when
\* absent and <<v>> when it is v.
Some(v) == <<v>>

SeqsUpTo(S, n) == UNION {[1..k -> S] : k \in 0..n}

\* Decoding a JSON string or null into a Go string field: null leaves "".
JsonString(v) == IF v = NULL THEN "" ELSE v[1]

\* The names extracted from a payload's label array (a null array has length
\* 0): a non-nil list in either case.
LabelNames(labels) ==
    IF labels = NULL THEN Some(<<>>)
    ELSE Some([j \in DOMAIN labels[1] |-> labels[1][j].name])

\* The filenames extracted from an array of file objects.
Filenames(files) ==
    IF files = NULL THEN Some(<<>>)
    ELSE Some([j \in DOMAIN files[1] |-> files[1][j].filename])

\* getPullRequestFiles on the outcome of its request: the filenames of the
\* decoded body, or nil and the error.
getPullRequestFiles(got) ==
    IF got.err # "nil"
    THEN [files |-> NULL, err |-> got.err]
    ELSE [files |-> Filenames(Some(got.body)), err |-> "nil"]

\* Faulty variant: a field of the payload outside the entity's fields is copied.
ToPullRequest_LeaksExtra(ghPR, got) ==
    LET f == getPullRequestFiles(got) IN
    [ID |-> ghPR.id, Number |-> ghPR.number, Title |-> ghPR.title,
     Body |-> JsonString(ghPR.body), Author |-> ghPR.user, State |-> ghPR.state,
     CreatedAt |-> ghPR.created_at, MergedAt |-> ghPR.merged_at,
     FilesChanged |-> IF f.err # "nil" THEN Some(<<>>) ELSE f.files,
     Labels |-> LabelNames(ghPR.labels),
     Extra |-> ghPR.extra]

\* Faulty variant: a failed files call leaves the nil list it returned.
ToPullRequest_NilFilesOnError(ghPR, got) ==
    LET f == getPullRequestFiles(got) IN
    [ID |-> ghPR.id, Number |-> ghPR.number, Title |-> ghPR.title,
     Body |-> JsonString(ghPR.body), Author |-> ghPR.user, State |-> ghPR.state,
     CreatedAt |-> ghPR.created_at, MergedAt |-> ghPR.merged_at,
     FilesChanged |-> f.files,
     Labels |-> LabelNames(ghPR.labels)]

\* The body of the loop of GetPullRequests for listing entry ghPR, `got` being
\* the outcome of the files request for it: the pull request entity.
ToPullRequest(ghPR, got) ==
    LET f == getPullRequestFiles(got) IN
    [ID |-> ghPR.id, Number |-> ghPR.number, Title |-> ghPR.title,
     Body |-> JsonString(ghPR.body), Author |-> ghPR.user, State |-> ghPR.state,
     CreatedAt |-> ghPR.created_at, MergedAt |-> ghPR.merged_at,
     FilesChanged |-> IF f.err # "nil" THEN Some(<<>>) ELSE f.files,
     Labels |-> LabelNames(ghPR.labels)]

\* isPullRequest: the stub's constant.
isPullRequest(ghIssue) == FALSE

\* The body of the loop of GetIssues for a listing entry that is kept.
ToIssue(ghIssue) ==
    [ID |-> ghIssue.id, Title |-> ghIssue.title, Body |-> JsonString(ghIssue.body),
     Author |-> ghIssue.user, State |-> ghIssue.state,
     CreatedAt |-> ghIssue.created_at, ClosedAt |-> ghIssue.closed_at,
     Labels |-> LabelNames(ghIssue.labels)]

\* The body of the loop of GetCommits for a listing entry.
ToCommit(ghCommit) ==
    [SHA |-> ghCommit.sha, Message |-> ghCommit.message, Author |-> ghCommit.author,
     CreatedAt |-> ghCommit.date, FilesChanged |-> Filenames(ghCommit.files)]

\* Faulty variant: a failed files call fails the whole call.
PullRequestsFrom_FilesErrorFatal(listErr, page, files) ==
    IF listErr # "nil" THEN [err |-> listErr, items |-> NULL]
    ELSE IF \E i \in DOMAIN page : files[i].err # "nil"
    THEN [err |-> "files", items |-> NULL]
    ELSE [err |-> "nil",
          items |-> Some([i \in DOMAIN page |-> ToPullRequest(page[i], files[i])])]

\* GetPullRequests on the outcome listErr of the listing request, the decoded
\* listing `page` and the outcome files[i] of the files request made for entry
\* i: the error and the returned slice (nil with an error).
PullRequestsFrom(listErr, page, files) ==
    IF listErr # "nil" THEN [err |-> listErr, items |-> NULL]
    ELSE [err |-> "nil",
          items |-> Some([i \in DOMAIN page |-> ToPullRequest(page[i], files[i])])]

\* GetIssues: the entries isPullRequest does not reject, converted in order and
\* appended to a slice that starts nil.
IssuesFrom(listErr, page) ==
    IF listErr # "nil" THEN [err |-> listErr, items |-> NULL]
    ELSE LET rejected(g) == isPullRequest(g)
             kept == SelectSeq(page, LAMBDA g : ~rejected(g))
         IN [err |-> "nil",
             items |-> IF kept = <<>> THEN NULL
                       ELSE Some([i \in DOMAIN kept |-> ToIssue(kept[i])])]

\* GetCommits.
CommitsFrom(listErr, page) ==
    IF listErr # "nil" THEN [err |-> listErr, items |-> NULL]
    ELSE [err |-> "nil", items |-> Some([i \in DOMAIN page |-> ToCommit(page[i])])]

\* The entities of a returned slice (a nil slice has none).
Items(ret) == IF ret.items = NULL THEN <<>> ELSE ret.items[1]

\* ------------------------------------------------ payloads of the hosting API
LabelArrays == {NULL, Some(<<>>),
                Some(<<[name |-> "bug", color |-> "red"], [name |-> "docs", color |-> "blue"]>>)}

FileArrays == {<<>>, <<[filename |-> "a.go", additions |-> "1"],
                       [filename |-> "b.go", additions |-> "2"]>>}

\* Pull request objects of a listing: the decoded fields and one the struct
\* does not declare.
GitHubPullRequest ==
    [id : {1, 2}, number : {1, 2}, title : {"t1", "t2"}, body : {NULL, Some("text")},
     user : {"alice", "bob"}, state : {"open", "closed"}, created_at : {1, 2},
     merged_at : {NULL, Some(3)}, labels : LabelArrays, extra : {"x", "y"}]

\* Issue objects of a listing; pull_request is the linkage field the hosting
\* API sets on, and only on, an entry that is a pull request.
GitHubIssue ==
    [id : {1, 2}, number : {1, 2}, title : {"t1", "t2"}, body : {NULL, Some("text")},
     user : {"alice", "bob"}, state : {"open", "closed"}, created_at : {1, 2},
     closed_at : {NULL, Some(3)}, labels : LabelArrays,
     pull_request : {NULL, Some("url")}, extra : {"x", "y"}]

GitHubCommit ==
    [sha : {"c1", "c2"}, message : {"m1", "m2"}, author : {"alice", "bob"},
     date : {1, 2}, files : {NULL} \cup {Some(f) : f \in FileArrays}, extra : {"x", "y"}]

\* Entry number i of a repository's listings, most recent first.
ListedPullRequest(i) ==
    [id |-> i, number |-> i, title |-> "t1", body |-> Some("text"), user |-> "alice",
     state |-> "open", created_at |-> MaxListing + 1 - i, merged_at |-> NULL, labels |-> Some(<<>>),
     extra |-> "x"]

ListedIssue(i, isPR) ==
    [id |-> i, number |-> i, title |-> "t1", body |-> Some("text"), user |-> "alice",
     state |-> "open", created_at |-> MaxListing + 1 - i, closed_at |-> NULL, labels |-> Some(<<>>),
     pull_request |-> IF isPR THEN Some("url") ELSE NULL, extra |-> "x"]

ListedCommit(i) ==
    [sha |-> IF i = 1 THEN "c1" ELSE IF i = 2 THEN "c2" ELSE IF i = 3 THEN "c3" ELSE "c4",
     message |-> "m1", author |-> "alice", date |-> MaxListing + 1 - i, files |-> NULL, extra |-> "x"]

\* What a repository's listing holds upstream: up to MaxListing entries, or one
\* entry of any content.
PullRequestListings ==
    {[i \in 1..n |-> ListedPullRequest(i)] : n \in 0..MaxListing}
        \cup {<<g>> : g \in GitHubPullRequest}

IssueListings ==
    UNION {{[i \in 1..n |-> ListedIssue(i, i \in prs)] : prs \in SUBSET (1..n)} :
              n \in 0..MaxListing}
        \cup {<<g>> : g \in GitHubIssue}

CommitListings ==
    {[i \in 1..n |-> ListedCommit(i)] : n \in 0..MaxListing}
        \cup {<<g>> : g \in GitHubCommit}

\* The listing response for per_page = perPage: the first perPage entries when
\* the hosting API honours the parameter, the whole listing when it does not.
Page(upstream, perPage, honours) ==
    IF honours /\ Len(upstream) > perPage THEN SubSeq(upstream, 1, perPage) ELSE upstream

\* Outcomes of a files request for a pull request: the request's error class and
\* the array of file objects the hosting API holds for the pull request, which
\* is decoded when there is no error.
FilesOutcomes == [err : RequestErrors, body : FileArrays]

\* ------------------------------------------------ multi-valued fields, stored
\* The non-nil string lists: what the client puts into FilesChanged and Labels.
ListItems == {"a.go", "b.go", "bug", "docs"}
StringLists == {Some(s) : s \in SeqsUpTo(ListItems, MaxListItems)}

\* JSON text as its tokens: punctuation and string literals.
Punct(c) == [t |-> "punct", v |-> c]
Str(s) == [t |-> "str", v |-> s]

RECURSIVE Elements(_)
Elements(items) ==
    IF items = <<>> THEN <<>>
    ELSE IF Len(items) = 1 THEN <<Str(items[1])>>
    ELSE <<Str(items[1]), Punct(",")>> \o Elements(Tail(items))

\* A JSON array of strings, and the strings of one.
Marshal(items) == <<Punct("[")>> \o Elements(items) \o <<Punct("]")>>

Unmarshal(text) ==
    LET strs == SelectSeq(text, LAMBDA tok : tok.t = "str")
    IN [i \in DOMAIN strs |-> strs[i].v]

\* StringList as a column value: a JSON array, the empty array for a list
\* without items.
StringListValue(list) == Some(Marshal(IF list = NULL THEN <<>> ELSE list[1]))

\* StringList read from a column: the array's strings; no items for SQL NULL.
StringListScan(column) ==
    IF column = NULL THEN Some(<<>>) ELSE Some(Unmarshal(column[1]))

\* The multi-valued columns CreatePullRequest writes for pr.
CreatePullRequest(pr) ==
    [files_changed |-> StringListValue(pr.FilesChanged),
     labels        |-> StringListValue(pr.Labels)]

\* The multi-valued fields GetRecentPRs scans from a row.
GetRecentPRs(row) ==
    [FilesChanged |-> StringListScan(row.files_changed),
     Labels       |-> StringListScan(row.labels)]

\* ------------------------------------------------------------ entity tables
\* A table is the set of its rows; a constraint holds only if the statements
\* keep it.  db has one table per field.
RepoFullNames == {"o/a", "o/b"}

\* The models.Repository values CreateRepo may be given: each full name as
\* first registered, and "o/b" also as registered again under another name
\* and owner.
Repository(fullName, v) ==
    [FullName |-> fullName,
     Name  |-> IF v = 2 THEN "renamed" ELSE IF fullName = "o/a" THEN "a" ELSE "b",
     Owner |-> IF v = 2 THEN "p" ELSE "o"]
Repositories ==
    {Repository(fullName, 1) : fullName \in RepoFullNames} \cup {Repository("o/b", 2)}

\* VALUES ($1, ..., $5) of CreateRepo at time t, with the id of the sequence.
RepoRow(id, repo, t) ==
    [id |-> id, full_name |-> repo.FullName, name |-> repo.Name, owner |-> repo.Owner,
     created_at |-> t, updated_at |-> t]

\* The database after the migrations and the registration of the repository
\* the ingest requests name.
InitialDb ==
    [repos |-> {RepoRow(1, Repository("o/a", 1), 1)}, pull_requests |-> {}, issues |-> {},
     commits |-> {}]

EntityIds == {1, 2}
StoredRepoIds == {1, 2}
Numbers == {1, 2}
Shas == {"sha1", "sha2"}
CreationTimes == {1, 2}
Fetches == {1, 2}
AuthorAt(c) == IF c = 1 THEN "alice" ELSE "bob"

\* What the hosting API holds for an entity at the first and at a later fetch:
\* its identity and creation do not depend on the fetch, the rest does.
PullRequestAt(id, repo, number, c, v) ==
    [ID |-> id, RepoID |-> repo, Number |-> number,
     Title |-> IF v = 1 THEN "title" ELSE "retitled",
     Body |-> IF v = 1 THEN "" ELSE "text",
     Author |-> AuthorAt(c),
     State |-> IF v = 1 THEN "open" ELSE "closed",
     CreatedAt |-> c,
     MergedAt |-> IF v = 1 THEN NULL ELSE Some(3),
     FilesChanged |-> IF v = 1 THEN Some(<<>>) ELSE Some(<<"a.go", "b.go">>),
     Labels |-> IF v = 1 THEN Some(<<"bug">>) ELSE Some(<<>>)]

IssueAt(id, repo, c, v) ==
    [ID |-> id, RepoID |-> repo,
     Title |-> IF v = 1 THEN "title" ELSE "retitled",
     Body |-> IF v = 1 THEN "" ELSE "text",
     Author |-> AuthorAt(c),
     State |-> IF v = 1 THEN "open" ELSE "closed",
     CreatedAt |-> c,
     ClosedAt |-> IF v = 1 THEN NULL ELSE Some(3),
     Labels |-> IF v = 1 THEN Some(<<"bug">>) ELSE Some(<<>>)]

CommitAt(sha, repo, c, v) ==
    [SHA |-> sha, RepoID |-> repo,
     Message |-> IF v = 1 THEN "message" ELSE "amended",
     Author |-> AuthorAt(c),
     CreatedAt |-> c,
     FilesChanged |-> IF v = 1 THEN Some(<<>>) ELSE Some(<<"a.go", "b.go">>)]

\* The entities an upsert may be given.  The hosting API's id of a pull request
\* (not its number) fixes when it was created; issue and commit inputs leave
\* the creation time free under one key.
PullRequests ==
    {PullRequestAt(id, repo, n, id, v) :
        id \in EntityIds, repo \in StoredRepoIds, n \in Numbers, v \in Fetches}
Issues ==
    {IssueAt(id, repo, c, v) :
        id \in EntityIds, repo \in StoredRepoIds, c \in CreationTimes, v \in Fetches}
Commits ==
    {CommitAt(sha, repo, c, v) :
        sha \in Shas, repo \in StoredRepoIds, c \in CreationTimes, v \in Fetches}

\* Errors of a statement.
ConnectionLost == Some("connection lost")
UniqueViolation == Some("unique_violation")
ForeignKeyViolation == Some("foreign_key_violation")

\* VALUES ($1, ..., $11) of CreatePullRequest as a row.
PullRequestRow(pr) ==
    [id |-> pr.ID, repo_id |-> pr.RepoID, number |-> pr.Number, title |-> pr.Title,
     body |-> pr.Body, author |-> pr.Author, state |-> pr.State,
     created_at |-> pr.CreatedAt, merged_at |-> pr.MergedAt,
     files_changed |-> CreatePullRequest(pr).files_changed,
     labels |-> CreatePullRequest(pr).labels]

IssueRow(issue) ==
    [id |-> issue.ID, repo_id |-> issue.RepoID, title |-> issue.Title,
     body |-> issue.Body, author |-> issue.Author, state |-> issue.State,
     created_at |-> issue.CreatedAt, closed_at |-> issue.ClosedAt,
     labels |-> StringListValue(issue.Labels)]

CommitRow(commit) ==
    [sha |-> commit.SHA, repo_id |-> commit.RepoID, message |-> commit.Message,
     author |-> commit.Author, created_at |-> commit.CreatedAt,
     files_changed |-> StringListValue(commit.FilesChanged)]

\* Faulty variant: DO UPDATE SET also assigns id and created_at.
PullRequestConflict_OverwritesAll(row, new) == new

\* Faulty variant: DO UPDATE SET without merged_at.
PullRequestConflict_KeepsMergedAt(row, new) ==
    [row EXCEPT !.title = new.title, !.body = new.body, !.state = new.state,
                !.files_changed = new.files_changed, !.labels = new.labels]

\* ON CONFLICT (repo_id, number) DO UPDATE SET title, body, state, merged_at,
\* files_changed, labels = EXCLUDED's.
PullRequestConflict(row, new) ==
    [row EXCEPT !.title = new.title, !.body = new.body, !.state = new.state,
                !.merged_at = new.merged_at,
                !.files_changed = new.files_changed, !.labels = new.labels]

\* ON CONFLICT (id) DO UPDATE SET title, body, state, closed_at, labels.
IssueConflict(row, new) ==
    [row EXCEPT !.title = new.title, !.body = new.body, !.state = new.state,
                !.closed_at = new.closed_at, !.labels = new.labels]

\* Faulty variant: the conflict clause also assigns repo_id.
CommitConflict_MovesRepo(row, new) == new

\* ON CONFLICT (sha) DO UPDATE SET message, author, created_at, files_changed.
CommitConflict(row, new) ==
    [row EXCEPT !.message = new.message, !.author = new.author,
                !.created_at = new.created_at,
                !.files_changed = new.files_changed]

\* One INSERT ... ON CONFLICT statement on table `rows`: when rows `hit`
\* conflict on the arbiter constraint the table becomes `updated` (DO UPDATE
\* applied to them); otherwise the row is inserted unless another unique
\* constraint (`clash`) or the foreign key to repos refuses it.  A statement
\* that fails, or whose connection is lost, changes nothing.
Statement(rows, new, hit, updated, clash, repoIds, lost) ==
    IF lost THEN [err |-> ConnectionLost, rows |-> rows]
    ELSE IF hit # {} THEN [err |-> NULL, rows |-> updated]
    ELSE IF clash # {} THEN [err |-> UniqueViolation, rows |-> rows]
    ELSE IF new.repo_id \notin repoIds THEN [err |-> ForeignKeyViolation, rows |-> rows]
    ELSE [err |-> NULL, rows |-> rows \cup {new}]

RepoIdsOf(d) == {row.id : row \in d.repos}

\* Faulty variant: a lost connection leaves the row written.
UpsertPullRequest_PartialWrite(d, pr, lost) ==
    [err |-> IF lost THEN ConnectionLost ELSE NULL,
     db  |-> [d EXCEPT !.pull_requests = @ \cup {PullRequestRow(pr)}]]

\* Faulty variant: a plain INSERT on a table without constraints.
UpsertPullRequest_NoConstraint(d, pr, lost) ==
    [err |-> IF lost THEN ConnectionLost ELSE NULL,
     db  |-> IF lost THEN d
             ELSE [d EXCEPT !.pull_requests = @ \cup {PullRequestRow(pr)}]]

\* Repository.CreatePullRequest: the statement's error and the database after.
UpsertPullRequest(d, pr, lost) ==
    LET new == PullRequestRow(pr)
        hit == {row \in d.pull_requests :
                    row.repo_id = new.repo_id /\ row.number = new.number}
        clash == {row \in d.pull_requests : row.id = new.id}
        updated == {IF row \in hit THEN PullRequestConflict(row, new) ELSE row :
                       row \in d.pull_requests}
        ret == Statement(d.pull_requests, new, hit, updated, clash, RepoIdsOf(d), lost)
    IN [err |-> ret.err, db |-> [d EXCEPT !.pull_requests = ret.rows]]

\* Repository.CreateIssue
CreateIssue(d, issue, lost) ==
    LET new == IssueRow(issue)
        hit == {row \in d.issues : row.id = new.id}
        updated == {IF row \in hit THEN IssueConflict(row, new) ELSE row :
                       row \in d.issues}
        ret == Statement(d.issues, new, hit, updated, {}, RepoIdsOf(d), lost)
    IN [err |-> ret.err, db |-> [d EXCEPT !.issues = ret.rows]]

\* Repository.CreateCommit
CreateCommit(d, commit, lost) ==
    LET new == CommitRow(commit)
        hit == {row \in d.commits : row.sha = new.sha}
        updated == {IF row \in hit THEN CommitConflict(row, new) ELSE row :
                       row \in d.commits}
        ret == Statement(d.commits, new, hit, updated, {}, RepoIdsOf(d), lost)
    IN [err |-> ret.err, db |-> [d EXCEPT !.commits = ret.rows]]

\* ON CONFLICT (full_name) DO UPDATE SET name, owner, updated_at.
RepoConflict(row, new) ==
    [row EXCEPT !.name = new.name, !.owner = new.owner,
                !.updated_at = new.updated_at]

\* Faulty variant: the conflict clause also assigns created_at.
CreateRepo_ResetsCreatedAt(d, repo, t, lost) ==
    LET hit == {row \in d.repos : row.full_name = repo.FullName}
        id  == IF hit = {} THEN Cardinality(d.repos) + 1
               ELSE CHOOSE i \in {row.id : row \in hit} : TRUE
    IN  IF lost THEN [err |-> ConnectionLost, db |-> d, id |-> 0]
        ELSE [err |-> NULL, id |-> id,
              db |-> [d EXCEPT !.repos = (@ \ hit) \cup {RepoRow(id, repo, t)}]]

\* Repository.CreateRepo at time t: the statement's error, the database after
\* and the id scanned from RETURNING id (that of the row inserted, numbered by
\* the table's sequence, or of the row updated); 0, the id the caller passed,
\* when the statement failed.
CreateRepo(d, repo, t, lost) ==
    LET new == RepoRow(Cardinality(d.repos) + 1, repo, t)
        hit == {row \in d.repos : row.full_name = repo.FullName}
    IN  IF lost THEN [err |-> ConnectionLost, db |-> d, id |-> 0]
        ELSE IF hit # {}
             THEN [err |-> NULL,
                   db |-> [d EXCEPT !.repos =
                              {IF row \in hit THEN RepoConflict(row, new) ELSE row :
                                  row \in @}],
                   id |-> CHOOSE i \in {row.id : row \in hit} : TRUE]
        ELSE [err |-> NULL, db |-> [d EXCEPT !.repos = @ \cup {new}], id |-> new.id]

\* The orders in which the rows of a set can be listed.
Orders(S) ==
    {s \in [1..Cardinality(S) -> S] : \A i, j \in DOMAIN s : i # j => s[i] # s[j]}

Min(a, b) == IF a < b THEN a ELSE b

\* Faulty variant: the SELECT without ORDER BY.
Select_Unordered(rows, repoID, limit) ==
    LET match == {row \in rows : row.repo_id = repoID}
    IN {SubSeq(s, 1, Min(limit, Len(s))) : s \in Orders(match)}

\* SELECT ... WHERE repo_id = $1 ORDER BY created_at DESC LIMIT $2: the results
\* the database may give (rows of equal created_at come in either order).
Select(rows, repoID, limit) ==
    LET match == {row \in rows : row.repo_id = repoID}
        ordered == {s \in Orders(match) :
                       \A i \in 1..(Len(s) - 1) : s[i].created_at >= s[i + 1].created_at}
    IN {SubSeq(s, 1, Min(limit, Len(s))) : s \in ordered}

\* rows.Scan of a row of each table.
ScanPullRequest(row) ==
    [ID |-> row.id, RepoID |-> row.repo_id, Number |-> row.number,
     Title |-> row.title, Body |-> row.body, Author |-> row.author,
     State |-> row.state, CreatedAt |-> row.created_at, MergedAt |-> row.merged_at,
     FilesChanged |-> GetRecentPRs(row).FilesChanged,
     Labels |-> GetRecentPRs(row).Labels]

ScanIssue(row) ==
    [ID |-> row.id, RepoID |-> row.repo_id, Title |-> row.title, Body |-> row.body,
     Author |-> row.author, State |-> row.state, CreatedAt |-> row.created_at,
     ClosedAt |-> row.closed_at, Labels |-> StringListScan(row.labels)]

ScanCommit(row) ==
    [SHA |-> row.sha, RepoID |-> row.repo_id, Message |-> row.message,
     Author |-> row.author, CreatedAt |-> row.created_at,
     FilesChanged |-> StringListScan(row.files_changed)]

\* The loop over rows.Next(): the slice is nil until a row is appended.
Scanned(entities) == IF entities = <<>> THEN NULL ELSE Some(entities)

\* What GetRecentPRs / GetRecentIssues / GetRecentCommits may return.
RecentPRs(d, repoID, limit, lost) ==
    IF lost THEN {[err |-> ConnectionLost, items |-> NULL]}
    ELSE {[err |-> NULL, items |-> Scanned([i \in DOMAIN s |-> ScanPullRequest(s[i])])] :
             s \in Select(d.pull_requests, repoID, limit)}

GetRecentIssues(d, repoID, limit, lost) ==
    IF lost THEN {[err |-> ConnectionLost, items |-> NULL]}
    ELSE {[err |-> NULL, items |-> Scanned([i \in DOMAIN s |-> ScanIssue(s[i])])] :
             s \in Select(d.issues, repoID, limit)}

GetRecentCommits(d, repoID, limit, lost) ==
    IF lost THEN {[err |-> ConnectionLost, items |-> NULL]}
    ELSE {[err |-> NULL, items |-> Scanned([i \in DOMAIN s |-> ScanCommit(s[i])])] :
             s \in Select(d.commits, repoID, limit)}

\* Two ingestion jobs of repository 1 that run at the same time, each with its
\* position, its row's id, its per-kind outcomes, whether a files request of
\* its pull-request step failed, whether its request context was cancelled and
\* whether its terminal write lost the connection.
Jobs == {1, 2}
JobRepo == 1
NoWorker == [pc |-> "idle", jobID |-> 0, outcome |-> [k \in {"pr", "issue", "commit"} |-> "none"],
             degraded |-> FALSE, cancelled |-> FALSE, lost |-> FALSE]

\* ------------------------------------------------------------------- state
\* ------------------------------------------------------------- migrations
\* The migrations list by version, in the order of the source.
migrations == <<1, 2, 3, 4, 5, 6>>

Versions == {migrations[i] : i \in 1..Len(migrations)}

\* Two runs of Migrate, one after the other or at once.
MigrateRuns == {1, 2}

Max(S) == CHOOSE x \in S : \A y \in S : y <= x

\* A run of Migrate: where it is, the version it read, its place in the list,
\* the error it returned (NULL: none) and the versions it applied, in order.
NoRun == [pc |-> "idle", currentVersion |-> 0, i |-> 1, err |-> NULL, done |-> <<>>]

\* A fresh database: no migration applied (applied counts the commits of each
\* migration's SQL), no row in schema_migrations.
InitialSchema ==
    [applied |-> [v \in Versions |-> 0], versions |-> {},
     runs |-> [m \in MigrateRuns |-> NoRun]]

\* SELECT COALESCE(MAX(version), 0) FROM schema_migrations
getCurrentVersion(versions) == Max(versions \cup {0})

\* Faulty variant: the SQL is run outside the transaction, so it stays applied
\* when the version record fails.
runMigration_NoTransaction(s, version, lost) ==
    IF lost \/ version \in s.versions
    THEN [err |-> Some("exec"),
          applied |-> [s.applied EXCEPT ![version] = @ + 1], versions |-> s.versions]
    ELSE [err |-> NULL, applied |-> [s.applied EXCEPT ![version] = @ + 1],
          versions |-> s.versions \cup {version}]

\* runMigration: the migration's SQL and its version record in one
\* transaction.  It fails, and rolls back, when the database fails at any of
\* its statements or the version is already recorded (primary key).
runMigration(s, version, lost) ==
    IF lost \/ version \in s.versions
    THEN [err |-> Some("exec"), applied |-> s.applied, versions |-> s.versions]
    ELSE [err |-> NULL, applied |-> [s.applied EXCEPT ![version] = @ + 1],
          versions |-> s.versions \cup {version}]

\* The loop's test: a migration is pending when its version is above the
\* current one.
Pending(version, currentVersion) == ~(version <= currentVersion)

VARIABLES
    ingestion_jobs,  \* the ingestion_jobs table: row i has id i (BIGSERIAL)
    req,             \* per ingest request: handler position, in-memory job, response
    exec,            \* per ingest request: the job execution's position and locals
    call,            \* the latest call of the hosting-API client or the data layer
                     \* made on its own: its inputs and what it returned
    db,              \* the tables repos, pull_requests, issues and commits
    workers,         \* concurrent jobs seen at the grain of data-layer statements
    schema           \* the schema: migrations applied, schema_migrations, Migrate runs

vars == <<ingestion_jobs, req, exec, call, db, workers, schema>>

\* Rows of the repos table (ids); a job's repo_id is foreign-keyed to them.
repos == {1}
\* repo_id values an ingest request may carry: missing (0), stored, not stored.
RepoIdInputs == {0, 1, 2}

KindOrder == <<"pr", "issue", "commit">>
Kinds == {"pr", "issue", "commit"}

TerminalStatuses == {"completed", "partial", "failed"}

NoJob == [ID |-> 0, RepoID |-> 0, Status |-> ""]
NoResp == [code |-> 0, type |-> "", job_id |-> 0, status |-> ""]
\* An ingest request as the handler sees it: its method, whether the context
\* carries a user, whether the body decodes, and the repo_id decoded.
NoInput == [method |-> "", authed |-> FALSE, bodyOK |-> FALSE, repoID |-> 0]
NoCall == [op |-> "none"]

\* ------------------------------------------------------ ingestion_jobs table
\* INSERT INTO ingestion_jobs ... RETURNING id
CreateJob(rows, job) ==
    Append(rows, [repo_id       |-> job.RepoID,
                  status        |-> job.Status,
                  started_at    |-> job.StartedAt,
                  finished_at   |-> job.FinishedAt,
                  error_message |-> job.ErrorMsg])

\* time.Now() as a write to row jobID reads it: later than every time already
\* stored in that row (the writes of one row follow one another).
Now(rows, jobID) ==
    LET stored == {rows[jobID].started_at, rows[jobID].finished_at} \ {NULL}
    IN IF stored = {} THEN <<1>>
       ELSE <<1 + (CHOOSE t \in {x[1] : x \in stored} :
                      \A u \in {x[1] : x \in stored} : u <= t)>>

\* Faulty variant: the running update sets started_at and leaves the status column out.
UpdateJobStatus_StartKeepsStatus(rows, jobID, status, errorMsg, t) ==
    [i \in DOMAIN rows |->
        IF i # jobID THEN rows[i]
        ELSE IF status = "running"
             THEN [rows[i] EXCEPT !.started_at = t]
             ELSE [rows[i] EXCEPT !.status = status, !.finished_at = t,
                                  !.error_message = errorMsg]]

\* Faulty variant: the terminal update leaves the error_message column out.
UpdateJobStatus_NoErrorText(rows, jobID, status, errorMsg, t) ==
    [i \in DOMAIN rows |->
        IF i # jobID THEN rows[i]
        ELSE IF status = "running"
             THEN [rows[i] EXCEPT !.status = status, !.started_at = t]
             ELSE [rows[i] EXCEPT !.status = status, !.finished_at = t]]

\* Faulty variant: the running update writes its time to finished_at.
UpdateJobStatus_StartSetsFinished(rows, jobID, status, errorMsg, t) ==
    [i \in DOMAIN rows |->
        IF i # jobID THEN rows[i]
        ELSE IF status = "running"
             THEN [rows[i] EXCEPT !.status = status, !.finished_at = t]
             ELSE [rows[i] EXCEPT !.status = status, !.finished_at = t,
                                  !.error_message = errorMsg]]

\* Faulty variant: the terminal update also sets started_at.
UpdateJobStatus_EndResetsStart(rows, jobID, status, errorMsg, t) ==
    [i \in DOMAIN rows |->
        IF i # jobID THEN rows[i]
        ELSE IF status = "running"
             THEN [rows[i] EXCEPT !.status = status, !.started_at = t]
             ELSE [rows[i] EXCEPT !.status = status, !.started_at = t,
                                  !.finished_at = t, !.error_message = errorMsg]]

\* Faulty variant: WHERE repo_id = the job's repository in place of WHERE id.
UpdateJobStatus_ByRepo(rows, jobID, status, errorMsg, t) ==
    [i \in DOMAIN rows |->
        IF rows[i].repo_id # rows[jobID].repo_id THEN rows[i]
        ELSE IF status = "running"
             THEN [rows[i] EXCEPT !.status = status, !.started_at = t]
             ELSE [rows[i] EXCEPT !.status = status, !.finished_at = t,
                                  !.error_message = errorMsg]]

\* UPDATE ingestion_jobs SET ... WHERE id = jobID, at time t.
UpdateJobStatus(rows, jobID, status, errorMsg, t) ==
    [i \in DOMAIN rows |->
        IF i # jobID THEN rows[i]
        ELSE IF status = "running"
             THEN [rows[i] EXCEPT !.status = status, !.started_at = t]
             ELSE [rows[i] EXCEPT !.status = status, !.finished_at = t,
                                  !.error_message = errorMsg]]

\* --------------------------------------------------------- ingest handler
ErrorResp(code, type) == [code |-> code, type |-> type, job_id |-> 0, status |-> ""]

\* Faulty variant: the repo_id is not tested.
IngestValidation_RepoIdUnchecked(method, authed, bodyOK, repoID) ==
    IF method # "POST" THEN ErrorResp(405, "method_not_allowed")
    ELSE IF ~authed THEN ErrorResp(401, "unauthorized")
    ELSE IF ~bodyOK THEN ErrorResp(400, "invalid_request")
    ELSE NoResp

\* The handler's checks before job creation: its error response, or NoResp.
IngestValidation(method, authed, bodyOK, repoID) ==
    IF method # "POST" THEN ErrorResp(405, "method_not_allowed")
    ELSE IF ~authed THEN ErrorResp(401, "unauthorized")
    ELSE IF ~bodyOK THEN ErrorResp(400, "invalid_request")
    ELSE IF repoID = 0 THEN ErrorResp(400, "invalid_request")
    ELSE NoResp

\* Faulty variant: the test of ProcessJob's error is inverted.
IngestResult_ErrTestInverted(processErr, job) ==
    IF ~processErr
    THEN ErrorResp(500, "job_processing_error")
    ELSE [code |-> 201, type |-> "", job_id |-> job.ID, status |-> job.Status]

\* Faulty variant: ProcessJob's error is not checked.
IngestResult_ErrIgnored(processErr, job) ==
    [code |-> 201, type |-> "", job_id |-> job.ID, status |-> job.Status]

\* Faulty variant: the answer reports the status the job has been moved to.
IngestResult_StatusRunning(processErr, job) ==
    IF processErr
    THEN ErrorResp(500, "job_processing_error")
    ELSE [code |-> 201, type |-> "", job_id |-> job.ID, status |-> "running"]

\* The handler's answer once ProcessJob has returned processErr for `job`.
IngestResult(processErr, job) ==
    IF processErr
    THEN ErrorResp(500, "job_processing_error")
    ELSE [code |-> 201, type |-> "", job_id |-> job.ID, status |-> job.Status]

\* -------------------------------------------------------- job orchestrator
\* The step of one kind, as the execution holds it while the step runs and until
\* the next one starts: the kind, whether its extraction returned a list, the
\* number of entities extracted and stored, and the pull requests whose file
\* list was left empty by a failed files call.
NoStep == [kind |-> "", extracted |-> FALSE, fetched |-> 0, persisted |-> 0,
           degraded |-> {}]

NoExec == [pc |-> "none", jobID |-> 0,
           outcome |-> [k \in Kinds |-> "none"],
           step    |-> NoStep]

\* The job a request for repoID creates: pending, no timestamps, no error.
NewJob(repoID) ==
    [RepoID |-> repoID, Status |-> "pending",
     StartedAt |-> NULL, FinishedAt |-> NULL, ErrorMsg |-> NULL]

\* The error kind a failed hosting-API call is recorded as: rate-limit
\* exhaustion, or any other failure of the external service.
ErrorKind(err) ==
    IF err = "ratelimit" THEN "RateLimitError" ELSE "ExternalServiceError"

\* The error text of a kind's failure: which extraction failed, and how.
ErrMsg(kind, errKind) == <<kind, errKind>>

\* Faulty variant: a rate-limited kind is not counted as failed.
FailedKinds_RateLimitNotCounted(outcome) ==
    {k \in Kinds : outcome[k] \notin {"ok", "RateLimitError"}}

FailedKinds(outcome) == {k \in Kinds : outcome[k] # "ok"}

\* Faulty variant: any failure fails the job.
Classify_AnyFailureFails(nFailed) ==
    IF nFailed = 0 THEN "completed" ELSE "failed"

\* Terminal status from the number of failed kinds.
Classify(nFailed) ==
    IF nFailed = 0 THEN "completed"
    ELSE IF nFailed = Cardinality(Kinds) THEN "failed"
    ELSE "partial"

\* The first failure's message in pull-request, issue, commit order; NULL if none.
FirstError(outcome) ==
    LET failedAt == {i \in 1..Len(KindOrder) : outcome[KindOrder[i]] # "ok"} IN
    IF failedAt = {} THEN NULL
    ELSE LET i == CHOOSE x \in failedAt : \A y \in failedAt : x <= y
         IN ErrMsg(KindOrder[i], outcome[KindOrder[i]])

Init ==
    /\ ingestion_jobs = <<>>
    /\ req = [r \in Requests |-> [pc |-> "init", job |-> NoJob, resp |-> NoResp,
                                 input |-> NoInput]]
    /\ exec = [r \in Requests |-> NoExec]
    /\ call = NoCall
    /\ db = InitialDb
    /\ workers = [j \in Jobs |-> NoWorker]
    /\ schema = InitialSchema

\* HandleIngestRepo up to the return of CreateIngestionJob: the request checks,
\* then the job row, inserted in pending (the insert fails on a repo_id that is
\* no row of repos, or when the data layer fails).
HandleIngestRepo(r) ==
    /\ req[r].pc = "init"
    /\ \E method \in {"POST", "GET"}, authed \in BOOLEAN, bodyOK \in BOOLEAN,
          repoID \in RepoIdInputs, createFails \in BOOLEAN :
        LET invalid == IngestValidation(method, authed, bodyOK, repoID)
            input   == [method |-> method, authed |-> authed, bodyOK |-> bodyOK,
                        repoID |-> repoID]
            job     == [ID |-> Len(ingestion_jobs) + 1, RepoID |-> repoID,
                        Status |-> "pending"]
        IN
        IF invalid # NoResp
        THEN /\ req' = [req EXCEPT ![r] = [pc |-> "done", job |-> NoJob, resp |-> invalid,
                                              input |-> input]]
             /\ UNCHANGED <<ingestion_jobs, exec, call, db, workers, schema>>
        ELSE IF createFails \/ repoID \notin repos
        THEN /\ req' = [req EXCEPT ![r] = [pc |-> "done", job |-> NoJob,
                            resp |-> ErrorResp(500, "job_creation_error"),
                            input |-> input]]
             /\ UNCHANGED <<ingestion_jobs, exec, call, db, workers, schema>>
        ELSE /\ ingestion_jobs' = CreateJob(ingestion_jobs, NewJob(repoID))
             /\ req' = [req EXCEPT ![r] = [pc |-> "process", job |-> job, resp |-> NoResp,
                                              input |-> input]]
             /\ UNCHANGED <<exec, call, db, workers, schema>>

\* ProcessJob as the handler calls it: read the repository row and mark the job
\* running; an error of either is returned to the handler, which answers 500,
\* and the row is left as it is. Otherwise the execution is started and nil is
\* returned.
ProcessJob(r) ==
    /\ req[r].pc = "process"
    /\ \E repoReadFails \in BOOLEAN, markFails \in BOOLEAN :
        IF repoReadFails \/ markFails
        THEN /\ req' = [req EXCEPT ![r].pc = "done",
                                   ![r].resp = IngestResult(TRUE, req[r].job)]
             /\ UNCHANGED <<ingestion_jobs, exec, call, db, workers, schema>>
        ELSE /\ ingestion_jobs' =
                    UpdateJobStatus(ingestion_jobs, req[r].job.ID, "running", NULL,
                                    Now(ingestion_jobs, req[r].job.ID))
             /\ req' = [req EXCEPT ![r].pc = "respond"]
             /\ exec' = [exec EXCEPT ![r] =
                            [NoExec EXCEPT !.pc = "fetch_pr", !.jobID = req[r].job.ID]]
             /\ UNCHANGED <<call, db, workers, schema>>

\* The handler's writeJSON after ProcessJob returned nil.
WriteCreated(r) ==
    /\ req[r].pc = "respond"
    /\ req' = [req EXCEPT ![r].pc = "done", ![r].resp = IngestResult(FALSE, req[r].job)]
    /\ UNCHANGED <<ingestion_jobs, exec, call, db, workers, schema>>

\* GetPullRequests: the listing call, then one files call per listed pull
\* request; a failed files call leaves that pull request with an empty file list
\* and is not reported.
GetPullRequests(listErr, n, fileErrs) ==
    IF listErr # "nil"
    THEN [err |-> listErr, count |-> 0, degraded |-> {}]
    ELSE [err |-> "nil", count |-> n,
          degraded |-> {i \in DOMAIN fileErrs : fileErrs[i] # "nil"}]

\* GetIssues and GetCommits: one listing call.
GetListing(listErr, n) ==
    IF listErr # "nil"
    THEN [err |-> listErr, count |-> 0, degraded |-> {}]
    ELSE [err |-> "nil", count |-> n, degraded |-> {}]

FetchPc(kind) == IF kind = "pr" THEN "fetch_pr"
                 ELSE IF kind = "issue" THEN "fetch_issue" ELSE "fetch_commit"

PersistPc(kind) == IF kind = "pr" THEN "persist_pr"
                   ELSE IF kind = "issue" THEN "persist_issue" ELSE "persist_commit"

\* Faulty variant: the commits are extracted before the issues.
AfterStep_CommitsSecond(kind) == IF kind = "pr" THEN "fetch_commit"
                                 ELSE IF kind = "commit" THEN "fetch_issue" ELSE "finalize"

\* Where the execution goes when the step of `kind` has ended.
AfterStep(kind) == IF kind = "pr" THEN "fetch_issue"
                   ELSE IF kind = "issue" THEN "fetch_commit" ELSE "finalize"

\* Faulty variant: a failed extraction ends the whole execution.
AfterFetch_AbortsJob(e, kind, got) ==
    IF got.err # "nil"
    THEN [e EXCEPT !.pc = "finalize", !.outcome[kind] = ErrorKind(got.err),
                   !.step = [NoStep EXCEPT !.kind = kind]]
    ELSE [e EXCEPT !.pc = PersistPc(kind),
                   !.step = [kind |-> kind, extracted |-> TRUE, fetched |-> got.count,
                             persisted |-> 0, degraded |-> got.degraded]]

\* The execution's locals once the extraction of `kind` returned `got`: a failed
\* extraction is recorded as the kind's failure and the step ends.
AfterFetch(e, kind, got) ==
    IF got.err # "nil"
    THEN [e EXCEPT !.pc = AfterStep(kind), !.outcome[kind] = ErrorKind(got.err),
                   !.step = [NoStep EXCEPT !.kind = kind]]
    ELSE [e EXCEPT !.pc = PersistPc(kind),
                   !.step = [kind |-> kind, extracted |-> TRUE, fetched |-> got.count,
                             persisted |-> 0, degraded |-> got.degraded]]

\* The extraction of one kind for a running job.
Fetch(r, kind) ==
    /\ exec[r].pc = FetchPc(kind)
    /\ \E listErr \in RequestErrors, n \in 0..MaxItems :
        \E fileErrs \in [1..(IF kind = "pr" /\ listErr = "nil" THEN n ELSE 0)
                            -> RequestErrors] :
            LET got == IF kind = "pr" THEN GetPullRequests(listErr, n, fileErrs)
                       ELSE GetListing(listErr, n)
            IN exec' = [exec EXCEPT ![r] = AfterFetch(exec[r], kind, got)]
    /\ UNCHANGED <<ingestion_jobs, req, call, db, workers, schema>>

\* Faulty variant: an upsert's error is dropped and the loop goes on to the next entity.
AfterPersist_ErrorDropped(e, kind, failedAt) ==
    IF failedAt = 0
    THEN [e EXCEPT !.pc = AfterStep(kind), !.outcome[kind] = "ok",
                   !.step.persisted = e.step.fetched]
    ELSE [e EXCEPT !.pc = AfterStep(kind), !.outcome[kind] = "ok",
                   !.step.persisted = e.step.fetched - 1]

\* The execution's locals once the upserts of `kind` ended, failedAt being the
\* position of the first upsert that returned an error (0: none did): the
\* entities before it are stored, the kind is failed and the step ends.
AfterPersist(e, kind, failedAt) ==
    IF failedAt = 0
    THEN [e EXCEPT !.pc = AfterStep(kind), !.outcome[kind] = "ok",
                   !.step.persisted = e.step.fetched]
    ELSE [e EXCEPT !.pc = AfterStep(kind), !.outcome[kind] = "PersistenceError",
                   !.step.persisted = failedAt - 1]

\* The upserts of the extracted entities of one kind, in order.
Persist(r, kind) ==
    /\ exec[r].pc = PersistPc(kind)
    /\ \E failedAt \in 0..exec[r].step.fetched :
        exec' = [exec EXCEPT ![r] = AfterPersist(exec[r], kind, failedAt)]
    /\ UNCHANGED <<ingestion_jobs, req, call, db, workers, schema>>

\* The terminal write: status from the per-kind outcomes, the first failure's
\* message as error text. A failed write leaves the row as it is.
Finalize(r) ==
    /\ exec[r].pc = "finalize"
    /\ \E writeFails \in BOOLEAN :
        /\ ingestion_jobs' =
              IF writeFails THEN ingestion_jobs
              ELSE UpdateJobStatus(ingestion_jobs, exec[r].jobID,
                        Classify(Cardinality(FailedKinds(exec[r].outcome))),
                        FirstError(exec[r].outcome),
                        Now(ingestion_jobs, exec[r].jobID))
    /\ exec' = [exec EXCEPT ![r].pc = "exited", ![r].step = NoStep]
    /\ UNCHANGED <<req, call, db, workers, schema>>

Next ==
    \E r \in Requests :
        \/ HandleIngestRepo(r)
        \/ ProcessJob(r)
        \/ WriteCreated(r)
        \/ \E kind \in Kinds : Fetch(r, kind)
        \/ \E kind \in Kinds : Persist(r, kind)
        \/ Finalize(r)

Spec == Init /\ [][Next]_vars

\* ------------------------------------- the client and the data layer on their own
\* The calls keep no state between them, so a behaviour follows one call.
\* One call of makeRequest against a transport that answers the first attempt
\* with a1 and a second one with a2.
MakeRequest ==
    /\ call = NoCall
    /\ \E a1 \in Attempts, a2 \in Attempts,
          bodies \in [1..2 -> Bodies], resets \in [1..2 -> ResetValues] :
        call' = [op |-> "makeRequest", a1 |-> a1, a2 |-> a2,
                 bodies |-> bodies, resets |-> resets,
                 ret |-> makeRequest(a1, a2, bodies, resets)]
    /\ UNCHANGED <<ingestion_jobs, req, exec, db, workers, schema>>

\* One call of GetPullRequests with `limit` on a repository whose listing is
\* `upstream`.
CallGetPullRequests ==
    /\ call = NoCall
    /\ \E limit \in 1..MaxLimit, honours \in BOOLEAN, listErr \in RequestErrors :
        \E upstream \in (IF listErr = "nil" THEN PullRequestListings ELSE {<<>>}) :
            LET page == Page(upstream, limit, honours) IN
            \E files \in [DOMAIN page -> FilesOutcomes] :
                call' = [op |-> "GetPullRequests", limit |-> limit,
                         upstream |-> upstream, honours |-> honours,
                         listErr |-> listErr, page |-> page, files |-> files,
                         ret |-> PullRequestsFrom(listErr, page, files)]
    /\ UNCHANGED <<ingestion_jobs, req, exec, db, workers, schema>>

\* One call of GetIssues.
CallGetIssues ==
    /\ call = NoCall
    /\ \E limit \in 1..MaxLimit, honours \in BOOLEAN, listErr \in RequestErrors :
        \E upstream \in (IF listErr = "nil" THEN IssueListings ELSE {<<>>}) :
            LET page == Page(upstream, limit, honours) IN
            call' = [op |-> "GetIssues", limit |-> limit,
                     upstream |-> upstream, honours |-> honours,
                     listErr |-> listErr, page |-> page,
                     ret |-> IssuesFrom(listErr, page)]
    /\ UNCHANGED <<ingestion_jobs, req, exec, db, workers, schema>>

\* One call of GetCommits.
CallGetCommits ==
    /\ call = NoCall
    /\ \E limit \in 1..MaxLimit, honours \in BOOLEAN, listErr \in RequestErrors :
        \E upstream \in (IF listErr = "nil" THEN CommitListings ELSE {<<>>}) :
            LET page == Page(upstream, limit, honours) IN
            call' = [op |-> "GetCommits", limit |-> limit,
                     upstream |-> upstream, honours |-> honours,
                     listErr |-> listErr, page |-> page,
                     ret |-> CommitsFrom(listErr, page)]
    /\ UNCHANGED <<ingestion_jobs, req, exec, db, workers, schema>>

\* A pull request with the given multi-valued fields is written by
\* CreatePullRequest and read back by GetRecentPRs.
StoreAndRead ==
    /\ call = NoCall
    /\ \E files \in StringLists, labels \in StringLists :
        LET pr  == [FilesChanged |-> files, Labels |-> labels]
            row == CreatePullRequest(pr)
        IN call' = [op |-> "StoreAndRead", pr |-> pr, row |-> row,
                    back |-> GetRecentPRs(row)]
    /\ UNCHANGED <<ingestion_jobs, req, exec, db, workers, schema>>

ClientNext ==
    \/ MakeRequest
    \/ CallGetPullRequests
    \/ CallGetIssues
    \/ CallGetCommits
    \/ StoreAndRead

ClientSpec == Init /\ [][ClientNext]_vars

\* --------------------------------------------- the data layer, call by call
\* Statements on the entity tables in any order and number, each recorded in
\* `call` with the creation times of the rows that held its natural key before
\* it.  A behaviour
\* writes one of the three entity tables (they share no row and no constraint).
EntityTables == {"pull_requests", "issues", "commits"}
OnlyTable(t) == \A u \in EntityTables \ {t} : db[u] = {}

Written(op, arg, lost, was, ret) ==
    [op |-> op, arg |-> arg, lost |-> lost,
     was |-> {row.created_at : row \in was}, err |-> ret.err]

\* time.Now() of a CreateRepo call: later than the registration in InitialDb.
RepoNow == 2

StoreRepo ==
    \E repo \in Repositories, lost \in BOOLEAN :
        LET ret == CreateRepo(db, repo, RepoNow, lost) IN
        /\ db' = ret.db
        /\ call' = [op |-> "CreateRepo", arg |-> repo, lost |-> lost,
                    was |-> {row.created_at :
                                row \in {x \in db.repos : x.full_name = repo.FullName}},
                    err |-> ret.err,
                    id |-> ret.id]
        /\ UNCHANGED <<ingestion_jobs, req, exec, workers, schema>>

StorePullRequest ==
    /\ OnlyTable("pull_requests")
    /\ \E pr \in PullRequests, lost \in BOOLEAN :
        LET ret == UpsertPullRequest(db, pr, lost) IN
        /\ db' = ret.db
        /\ call' = Written("CreatePullRequest", pr, lost,
                           {row \in db.pull_requests :
                               row.repo_id = pr.RepoID /\ row.number = pr.Number}, ret)
    /\ UNCHANGED <<ingestion_jobs, req, exec, workers, schema>>

StoreIssue ==
    /\ OnlyTable("issues")
    /\ \E issue \in Issues, lost \in BOOLEAN :
        LET ret == CreateIssue(db, issue, lost) IN
        /\ db' = ret.db
        /\ call' = Written("CreateIssue", issue, lost,
                           {row \in db.issues : row.id = issue.ID}, ret)
    /\ UNCHANGED <<ingestion_jobs, req, exec, workers, schema>>

StoreCommit ==
    /\ OnlyTable("commits")
    /\ \E commit \in Commits, lost \in BOOLEAN :
        LET ret == CreateCommit(db, commit, lost) IN
        /\ db' = ret.db
        /\ call' = Written("CreateCommit", commit, lost,
                           {row \in db.commits : row.sha = commit.SHA}, ret)
    /\ UNCHANGED <<ingestion_jobs, req, exec, workers, schema>>

Limits == 0..MaxLimit

ReadRecent ==
    \E t \in EntityTables, repoID \in StoredRepoIds, limit \in Limits, lost \in BOOLEAN :
        /\ OnlyTable(t)
        /\ \E ret \in (CASE t = "pull_requests" -> RecentPRs(db, repoID, limit, lost)
                      [] t = "issues" -> GetRecentIssues(db, repoID, limit, lost)
                      [] t = "commits" -> GetRecentCommits(db, repoID, limit, lost)) :
            call' = [op |-> "GetRecent", table |-> t, repoID |-> repoID,
                     limit |-> limit, ret |-> ret]
        /\ UNCHANGED <<ingestion_jobs, req, exec, db, workers, schema>>

StoreNext ==
    \/ StoreRepo
    \/ StorePullRequest
    \/ StoreIssue
    \/ StoreCommit
    \/ ReadRecent

StoreSpec == Init /\ [][StoreNext]_vars

\* ------------------------------------------------------- concurrent jobs
\* What job j extracts: the same pull request, issue and commit of JobRepo as
\* the other job, as the hosting API holds them at the time of j's fetch; a
\* pull request whose files request failed carries an empty file list.
JobEntity(j, kind, filesFailed) ==
    CASE kind = "pr" ->
            IF filesFailed
            THEN [PullRequestAt(1, JobRepo, 1, 1, j) EXCEPT !.FilesChanged = Some(<<>>)]
            ELSE PullRequestAt(1, JobRepo, 1, 1, j)
      [] kind = "issue" -> IssueAt(1, JobRepo, 1, j)
      [] kind = "commit" -> CommitAt("sha1", JobRepo, 1, j)

Upsert(d, kind, e, lost) ==
    CASE kind = "pr" -> UpsertPullRequest(d, e, lost)
      [] kind = "issue" -> CreateIssue(d, e, lost)
      [] kind = "commit" -> CreateCommit(d, e, lost)

NextKind(kind) == IF kind = "pr" THEN "issue"
                  ELSE IF kind = "issue" THEN "commit" ELSE "finish"

\* The errors a hosting-API call of a job can return: only the context's once
\* the request context is cancelled.
FetchErrors(w) == IF w.cancelled THEN {"canceled"} ELSE {"nil", "server"}

\* CreateIngestionJob of a request for JobRepo.
JobCreate(j) ==
    /\ workers[j].pc = "idle"
    /\ ingestion_jobs' = CreateJob(ingestion_jobs, NewJob(JobRepo))
    /\ workers' = [workers EXCEPT ![j].pc = "pending",
                                  ![j].jobID = Len(ingestion_jobs) + 1]
    /\ UNCHANGED <<req, exec, call, db, schema>>

\* ProcessJob marks the row running.
JobStart(j) ==
    /\ workers[j].pc = "pending"
    /\ ingestion_jobs' = UpdateJobStatus(ingestion_jobs, workers[j].jobID, "running",
                                         NULL, Now(ingestion_jobs, workers[j].jobID))
    /\ workers' = [workers EXCEPT ![j].pc = "pr"]
    /\ UNCHANGED <<req, exec, call, db, schema>>

\* One step of the job: the extraction of a kind and, when it succeeded, the
\* upsert of what it returned.
JobStep(j, kind) ==
    /\ workers[j].pc = kind
    /\ \E listErr \in FetchErrors(workers[j]) :
       \E filesFailed \in (IF kind = "pr" /\ listErr = "nil" THEN BOOLEAN ELSE {FALSE}),
          lost \in (IF listErr = "nil" THEN BOOLEAN ELSE {FALSE}) :
          LET got == IF kind = "pr"
                     THEN GetPullRequests(listErr, 1, <<IF filesFailed THEN "server" ELSE "nil">>)
                     ELSE GetListing(listErr, 1)
              ret == Upsert(db, kind, JobEntity(j, kind, got.degraded # {}), lost)
          IN IF got.err # "nil"
             THEN /\ workers' = [workers EXCEPT ![j].pc = NextKind(kind),
                                                ![j].outcome[kind] = ErrorKind(got.err)]
                  /\ UNCHANGED <<db, schema>>
             ELSE /\ db' = ret.db
                  /\ workers' = [workers EXCEPT
                        ![j].pc = NextKind(kind),
                        ![j].outcome[kind] =
                            IF ret.err = NULL THEN "ok" ELSE "PersistenceError",
                        ![j].degraded = @ \/ got.degraded # {}]
    /\ UNCHANGED <<ingestion_jobs, req, exec, call, schema>>

\* The terminal write of the job, with the context the job was given: it fails
\* when that context is cancelled or the connection is lost.
JobFinish(j) ==
    /\ workers[j].pc = "finish"
    /\ \E lost \in BOOLEAN :
        /\ ingestion_jobs' =
              IF lost \/ workers[j].cancelled THEN ingestion_jobs
              ELSE UpdateJobStatus(ingestion_jobs, workers[j].jobID,
                        Classify(Cardinality(FailedKinds(workers[j].outcome))),
                        FirstError(workers[j].outcome),
                        Now(ingestion_jobs, workers[j].jobID))
        /\ workers' = [workers EXCEPT ![j].pc = "exited", ![j].lost = lost]
    /\ UNCHANGED <<req, exec, call, db, schema>>

\* The triggering request of a running job is aborted: its context, which the
\* handler passed to ProcessJob, is cancelled.
JobCancel(j) ==
    /\ workers[j].pc \in {"pr", "issue", "commit", "finish"}
    /\ ~workers[j].cancelled
    /\ workers' = [workers EXCEPT ![j].cancelled = TRUE]
    /\ UNCHANGED <<ingestion_jobs, req, exec, call, db, schema>>

JobsNext ==
    \E j \in Jobs :
        \/ JobCreate(j)
        \/ JobStart(j)
        \/ \E kind \in Kinds : JobStep(j, kind)
        \/ JobFinish(j)
        \/ JobCancel(j)

JobsSpec == Init /\ [][JobsNext]_vars

\* ------------------------------------------- the job table and the status request
\* Faulty variant: ORDER BY id ASC.
GetJobsByRepo_Ascending(rows, repoID) ==
    LET ids == {i \in DOMAIN rows : rows[i].repo_id = repoID}
        order == CHOOSE s \in Orders(ids) : \A i, j \in DOMAIN s : i < j => s[i] < s[j]
    IN [k \in DOMAIN order |->
           [ID |-> order[k], RepoID |-> rows[order[k]].repo_id,
            Status |-> rows[order[k]].status, StartedAt |-> rows[order[k]].started_at,
            FinishedAt |-> rows[order[k]].finished_at,
            ErrorMsg |-> rows[order[k]].error_message]]

\* SELECT ... FROM ingestion_jobs WHERE repo_id = $1 ORDER BY id DESC, scanned.
GetJobsByRepo(rows, repoID) ==
    LET ids == {i \in DOMAIN rows : rows[i].repo_id = repoID}
        order == CHOOSE s \in Orders(ids) : \A i, j \in DOMAIN s : i < j => s[i] > s[j]
    IN [k \in DOMAIN order |->
           [ID |-> order[k], RepoID |-> rows[order[k]].repo_id,
            Status |-> rows[order[k]].status, StartedAt |-> rows[order[k]].started_at,
            FinishedAt |-> rows[order[k]].finished_at,
            ErrorMsg |-> rows[order[k]].error_message]]

\* The path segment between /api/repos/ and /status: a decimal repository id,
\* or text strconv.ParseInt refuses (0 stands for it).
StatusPaths == {0, 1, 2, 3}

\* HandleGetRepoStatus: the status code, the error type and the job written.
HandleGetRepoStatus(rows, method, path, queryFails) ==
    IF method # "GET" THEN [code |-> 405, type |-> "method_not_allowed", job |-> NULL]
    ELSE IF path = 0 THEN [code |-> 400, type |-> "invalid_request", job |-> NULL]
    ELSE IF queryFails THEN [code |-> 500, type |-> "database_error", job |-> NULL]
    ELSE LET jobs == GetJobsByRepo(rows, path) IN
         IF Len(jobs) = 0 THEN [code |-> 404, type |-> "not_found", job |-> NULL]
         ELSE [code |-> 200, type |-> "", job |-> Some(jobs[1])]

\* CreateJob for either stored repository, called on its own.
TableCreateJob ==
    /\ call = NoCall
    /\ Len(ingestion_jobs) < MaxJobRows
    /\ \E repoID \in StoredRepoIds :
          ingestion_jobs' = CreateJob(ingestion_jobs, NewJob(repoID))
    /\ UNCHANGED <<req, exec, call, db, workers, schema>>

\* UpdateJobStatus called on its own with any status and error text, up to two
\* times per row.
TableUpdateJobStatus ==
    /\ call = NoCall
    /\ \E jobID \in DOMAIN ingestion_jobs,
          status \in {"running", "completed", "failed"},
          errorMsg \in {NULL, ErrMsg("pr", "ExternalServiceError")} :
        /\ Now(ingestion_jobs, jobID)[1] <= 2
        /\ ingestion_jobs' = UpdateJobStatus(ingestion_jobs, jobID, status, errorMsg,
                                             Now(ingestion_jobs, jobID))
    /\ UNCHANGED <<req, exec, call, db, workers, schema>>

\* One status request, on whatever the table holds.
GetRepoStatus ==
    /\ call = NoCall
    /\ \E method \in {"GET", "POST"}, path \in StatusPaths, queryFails \in BOOLEAN :
          call' = [op |-> "GetRepoStatus", method |-> method, path |-> path,
                   queryFails |-> queryFails,
                   resp |-> HandleGetRepoStatus(ingestion_jobs, method, path, queryFails)]
    /\ UNCHANGED <<ingestion_jobs, req, exec, db, workers, schema>>

JobTableNext ==
    \/ TableCreateJob
    \/ TableUpdateJobStatus
    \/ GetRepoStatus

JobTableSpec == Init /\ [][JobTableNext]_vars

\* ------------------------------------------------------------------ tokens
\* A token is the sequence of its dot-separated parts (what strings.Split
\* gives).  A part is text in the base64url alphabet, which has no dot: the
\* encoding of a JSON document or of a signature's bytes, or text that is no
\* encoding of anything.
Base64(bytes) == [b64 |-> bytes]
NotBase64 == [garbage |-> "%%%"]
IsBase64(part) == DOMAIN part = {"b64"}
Base64Decode(part) == part.b64

\* json.Marshal of a struct, and the bytes of an HMAC-SHA256 under a key (taken
\* as free of collisions: equal bytes only for equal key and message).
Json(obj) == [json |-> obj]
IsJson(bytes) == DOMAIN bytes = {"json"}
Hmac(key, message) == [key |-> key, message |-> message]

\* The token lifetime (24 hours) and the accepted clock skew (60 seconds) on a
\* clock that ticks twice in a lifetime, the skew rounded up to one tick.
TokenLifetime == 2
ClockSkew == 1
IssueTimes == {1, 2}
ValidateTimes == 0..5

Secrets == {"secret1", "secret2"}

\* models.User values, the one with four empty fields among them; a login may
\* contain a dot.
Users == [ID : {"", "42"}, Login : {"", "octo.cat"}, Email : {"", "o@x.io"},
          GitHubToken : {"", "gho_1"}]

jwtHeader(alg) == [alg |-> alg, typ |-> "JWT"]

jwtClaims(user, now) ==
    [user_id |-> user.ID, login |-> user.Login, email |-> user.Email,
     github_token |-> user.GitHubToken, iat |-> now, exp |-> now + TokenLifetime]

\* createSignature under the service's secret; the message is the header part
\* and the claims part joined by a dot.
createSignature(secret, headerEncoded, claimsEncoded) ==
    Base64(Hmac(secret, <<headerEncoded, claimsEncoded>>))

\* The token a service with `secret` builds from a header and claims.
Signed(secret, header, claims) ==
    LET headerEncoded == Base64(Json(header))
        claimsEncoded == Base64(Json(claims))
    IN <<headerEncoded, claimsEncoded,
         createSignature(secret, headerEncoded, claimsEncoded)>>

\* GenerateJWT at time now.
GenerateJWT(secret, user, now) == Signed(secret, jwtHeader("HS256"), jwtClaims(user, now))

\* Faulty variant: the signature is not compared.
ValidateJWT_SignatureUnchecked(secret, token, now) ==
    IF Len(token) # 3 THEN [err |-> "invalid token format", user |-> NULL]
    ELSE IF ~IsBase64(token[1]) \/ ~IsBase64(token[2])
         THEN [err |-> "failed to decode", user |-> NULL]
    ELSE LET claims == Base64Decode(token[2]).json IN
         IF claims.exp < now THEN [err |-> "token has expired", user |-> NULL]
         ELSE [err |-> "nil",
               user |-> Some([ID |-> claims.user_id, Login |-> claims.login,
                              Email |-> claims.email,
                              GitHubToken |-> claims.github_token])]

\* Faulty variant: the GitHub token is not copied into the returned user.
ValidateJWT_DropsGitHubToken(secret, token, now) ==
    IF Len(token) # 3 THEN [err |-> "invalid token format", user |-> NULL]
    ELSE IF token[3] # createSignature(secret, token[1], token[2])
         THEN [err |-> "invalid token signature", user |-> NULL]
    ELSE LET claims == Base64Decode(token[2]).json IN
         IF claims.exp < now THEN [err |-> "token has expired", user |-> NULL]
         ELSE [err |-> "nil",
               user |-> Some([ID |-> claims.user_id, Login |-> claims.login,
                              Email |-> claims.email, GitHubToken |-> ""])]

\* ValidateJWT at time now: the error text ("nil": none) and the user returned.
ValidateJWT(secret, token, now) ==
    IF Len(token) # 3 THEN [err |-> "invalid token format", user |-> NULL]
    ELSE IF token[3] # createSignature(secret, token[1], token[2])
         THEN [err |-> "invalid token signature", user |-> NULL]
    ELSE IF ~IsBase64(token[1]) THEN [err |-> "failed to decode header", user |-> NULL]
    ELSE IF ~IsJson(Base64Decode(token[1]))
         THEN [err |-> "failed to unmarshal header", user |-> NULL]
    ELSE IF Base64Decode(token[1]).json.alg # "HS256"
              \/ Base64Decode(token[1]).json.typ # "JWT"
         THEN [err |-> "unsupported token type or algorithm", user |-> NULL]
    ELSE IF ~IsBase64(token[2]) THEN [err |-> "failed to decode claims", user |-> NULL]
    ELSE IF ~IsJson(Base64Decode(token[2]))
         THEN [err |-> "failed to unmarshal claims", user |-> NULL]
    ELSE LET claims == Base64Decode(token[2]).json IN
         IF claims.exp < now THEN [err |-> "token has expired", user |-> NULL]
         ELSE IF claims.iat > now + ClockSkew
              THEN [err |-> "token issued in the future", user |-> NULL]
         ELSE [err |-> "nil",
               user |-> Some([ID |-> claims.user_id, Login |-> claims.login,
                              Email |-> claims.email,
                              GitHubToken |-> claims.github_token])]

\* What a caller may present in place of the token `issued` for a user: the
\* token itself; its claims replaced by those of `other` under the old
\* signature; a part dropped or added; no token text; parts that encode
\* nothing; and a token the issuer signed with another algorithm in its header.
Presented(issued, signSecret, other, t0) ==
    [asIssued   |-> issued,
     newClaims  |-> <<issued[1], Base64(Json(jwtClaims(other, t0))), issued[3]>>,
     twoParts   |-> <<issued[1], issued[2]>>,
     fourParts  |-> issued \o <<issued[3]>>,
     empty      |-> <<Base64([bytes |-> ""])>>,
     garbage    |-> <<NotBase64, NotBase64, NotBase64>>,
     signedJunk |-> <<NotBase64, NotBase64,
                      createSignature(signSecret, NotBase64, NotBase64)>>,
     otherAlg   |-> Signed(signSecret, jwtHeader("none"), jwtClaims(other, t0))]

\* A service with signSecret issues a token for a user at t0; a service with
\* checkSecret validates what is presented at time now.
CallValidateJWT ==
    /\ call = NoCall
    /\ \E user \in Users, other \in Users, signSecret \in Secrets, checkSecret \in Secrets,
          t0 \in IssueTimes, now \in ValidateTimes,
          how \in {"asIssued", "newClaims", "twoParts", "fourParts", "empty",
                   "garbage", "signedJunk", "otherAlg"} :
        LET issued == GenerateJWT(signSecret, user, t0)
            token == Presented(issued, signSecret, other, t0)[how]
        IN /\ how = "asIssued" => other = user
           /\ call' = [op |-> "ValidateJWT", user |-> user, other |-> other,
                       signSecret |-> signSecret, checkSecret |-> checkSecret,
                       issuedAt |-> t0, now |-> now, how |-> how, token |-> token,
                       ret |-> ValidateJWT(checkSecret, token, now)]
    /\ UNCHANGED <<ingestion_jobs, req, exec, db, workers, schema>>

\* ------------------------------------------------------------------ server
\* A request path as its segments; an answer as its HTTP status and the error
\* type of its JSON body ("": no error body).
Answer(code, type) == [code |-> code, type |-> type]

Paths == {<<"api", "auth", "github">>, <<"api", "repos">>, <<"api", "repos", "ingest">>,
          <<"api", "repos", "1", "status">>, <<"api", "repos", "status">>,
          <<"api", "repos", "1">>, <<"api", "context", "query">>, <<"health">>}

Methods == {"GET", "POST", "OPTIONS"}

\* The method each handler serves.
MethodOf(handler) ==
    IF handler \in {"HandleGetRepos", "HandleGetRepoStatus"} THEN "GET" ELSE "POST"

\* The answers a handler can give a request of this method; authed tells
\* whether the request context carries a user.
HandlerAnswers(handler, method, authed) ==
    IF method # MethodOf(handler) THEN {Answer(405, "method_not_allowed")}
    ELSE IF handler = "HandleGitHubAuth"
    THEN {Answer(400, "invalid_request"), Answer(400, "oauth_error"), Answer(200, "")}
    ELSE IF handler = "HandleGetRepos"
    THEN IF ~authed THEN {Answer(401, "unauthorized")}
         ELSE {Answer(500, "database_error"), Answer(200, "")}
    ELSE IF handler = "HandleIngestRepo"
    THEN IF ~authed THEN {Answer(401, "unauthorized")}
         ELSE {Answer(400, "invalid_request"), Answer(500, "job_creation_error"),
               Answer(500, "job_processing_error"), Answer(201, "")}
    ELSE IF handler = "HandleGetRepoStatus"
    THEN {Answer(400, "invalid_request"), Answer(500, "database_error"),
          Answer(404, "not_found"), Answer(200, "")}
    ELSE IF handler = "HandleContextQuery"
    THEN {Answer(400, "invalid_request"), Answer(504, "ai_service_timeout"),
          Answer(502, "ai_service_error"), Answer(500, "context_query_error"),
          Answer(200, "")}
    ELSE IF handler = "handleHealth" THEN {Answer(200, "")}
    ELSE {}

\* What serving a request comes to: the handler run ("none": no handler) and
\* the answers it can give.
Served(handler, answers) == [handler |-> handler, answers |-> answers]

\* middleware.AuthRequired around a handler: without a token that ValidateJWT
\* accepts the answer is 401 "unauthorized" and the handler is not called; with
\* one the handler runs with the user in the request context.
AuthRequired(handler, method, token, secret, now) ==
    IF token = NULL \/ ValidateJWT(secret, token, now).err # "nil"
    THEN Served("none", {Answer(401, "unauthorized")})
    ELSE Served(handler, HandlerAnswers(handler, method, TRUE))

\* Faulty variant: the status route calls its handler without the middleware.
Route_StatusUnprotected(method, path, token, secret, now) ==
    IF path = <<"health">> THEN Served("handleHealth", HandlerAnswers("handleHealth", method, FALSE))
    ELSE IF path = <<"api", "auth", "github">>
    THEN Served("HandleGitHubAuth", HandlerAnswers("HandleGitHubAuth", method, FALSE))
    ELSE IF path = <<"api", "repos">>
    THEN AuthRequired("HandleGetRepos", method, token, secret, now)
    ELSE IF path = <<"api", "repos", "ingest">>
    THEN AuthRequired("HandleIngestRepo", method, token, secret, now)
    ELSE IF path = <<"api", "context", "query">>
    THEN AuthRequired("HandleContextQuery", method, token, secret, now)
    ELSE IF Len(path) > 2 /\ SubSeq(path, 1, 2) = <<"api", "repos">>
    THEN IF path[Len(path)] = "status"
         THEN Served("HandleGetRepoStatus", HandlerAnswers("HandleGetRepoStatus", method, FALSE))
         ELSE Served("none", {Answer(404, "")})
    ELSE Served("none", {Answer(404, "")})

\* The routes of server.New: exact paths first, then the subtree under
\* /api/repos/, where a path ending in /status goes to the status handler.
Route(method, path, token, secret, now) ==
    IF path = <<"health">> THEN Served("handleHealth", HandlerAnswers("handleHealth", method, FALSE))
    ELSE IF path = <<"api", "auth", "github">>
    THEN Served("HandleGitHubAuth", HandlerAnswers("HandleGitHubAuth", method, FALSE))
    ELSE IF path = <<"api", "repos">>
    THEN AuthRequired("HandleGetRepos", method, token, secret, now)
    ELSE IF path = <<"api", "repos", "ingest">>
    THEN AuthRequired("HandleIngestRepo", method, token, secret, now)
    ELSE IF path = <<"api", "context", "query">>
    THEN AuthRequired("HandleContextQuery", method, token, secret, now)
    ELSE IF Len(path) > 2 /\ SubSeq(path, 1, 2) = <<"api", "repos">>
    THEN IF path[Len(path)] = "status"
         THEN AuthRequired("HandleGetRepoStatus", method, token, secret, now)
         ELSE Served("none", {Answer(404, "")})
    ELSE Served("none", {Answer(404, "")})

\* Server.ServeHTTP: a preflight request is answered 200 before any route.
ServerServeHTTP(method, path, token, secret, now) ==
    IF method = "OPTIONS" THEN Served("none", {Answer(200, "")})
    ELSE Route(method, path, token, secret, now)

ServerSecret == "secret1"
ServerUser == [ID |-> "42", Login |-> "octo.cat", Email |-> "", GitHubToken |-> "gho_1"]

\* The bearer tokens a request may carry: none, or one of the presentations of
\* a token issued to ServerUser under either secret.
BearerTokens ==
    {NULL} \cup
    {Presented(GenerateJWT(s, ServerUser, t0), s, ServerUser, t0)[how] :
        s \in Secrets, t0 \in IssueTimes, how \in {"asIssued", "otherAlg", "twoParts"}}

\* One request served.
ServeHTTP ==
    /\ call = NoCall
    /\ \E method \in Methods, path \in Paths, token \in BearerTokens, now \in ValidateTimes :
        LET served == ServerServeHTTP(method, path, token, ServerSecret, now) IN
        \E resp \in served.answers :
            call' = [op |-> "ServeHTTP", method |-> method, path |-> path, token |-> token,
                     valid |-> (token # NULL
                                /\ ValidateJWT(ServerSecret, token, now).err = "nil"),
                     handler |-> served.handler, resp |-> resp]
    /\ UNCHANGED <<ingestion_jobs, req, exec, db, workers, schema>>

AuthNext ==
    \/ CallValidateJWT
    \/ ServeHTTP

AuthSpec == Init /\ [][AuthNext]_vars

\* ----------------------------------------------------------------- Migrate
\* Migrate up to its loop: createMigrationsTable, then getCurrentVersion;
\* either may fail.
MigrateStart(m) ==
    /\ schema.runs[m].pc = "idle"
    /\ \E lost \in BOOLEAN :
        schema' = [schema EXCEPT !.runs[m] =
            IF lost THEN [@ EXCEPT !.pc = "returned", !.err = Some("query")]
            ELSE [@ EXCEPT !.pc = "loop",
                           !.currentVersion = getCurrentVersion(schema.versions)]]
    /\ UNCHANGED <<ingestion_jobs, req, exec, call, db, workers>>

\* One pass of the loop over migrations: skip what is not pending, run what
\* is, return at the first error or at the end of the list.
MigrateLoop(m) ==
    LET run == schema.runs[m] IN
    /\ run.pc = "loop"
    /\ IF run.i > Len(migrations)
       THEN schema' = [schema EXCEPT !.runs[m].pc = "returned"]
       ELSE IF ~Pending(migrations[run.i], run.currentVersion)
       THEN schema' = [schema EXCEPT !.runs[m].i = @ + 1]
       ELSE \E lost \in BOOLEAN :
            LET ret == runMigration(schema, migrations[run.i], lost) IN
            schema' = [applied |-> ret.applied, versions |-> ret.versions,
                       runs |-> [schema.runs EXCEPT ![m] =
                           IF ret.err # NULL
                           THEN [@ EXCEPT !.pc = "returned", !.err = ret.err]
                           ELSE [@ EXCEPT !.i = @ + 1,
                                          !.done = Append(@, migrations[run.i])]]]
    /\ UNCHANGED <<ingestion_jobs, req, exec, call, db, workers>>

\* cleanupTestDB between runs: DELETE FROM schema_migrations (the tables the
\* migrations made stay).
CleanupTestDB ==
    /\ \A m \in MigrateRuns : schema.runs[m].pc # "loop"
    /\ schema.versions # {}
    /\ schema' = [schema EXCEPT !.versions = {}]
    /\ UNCHANGED <<ingestion_jobs, req, exec, call, db, workers>>

MigrateNext ==
    \/ \E m \in MigrateRuns : MigrateStart(m)
    \/ \E m \in MigrateRuns : MigrateLoop(m)
    \/ CleanupTestDB

MigrateSpec == Init /\ [][MigrateNext]_vars

\* ------------------------------------------------------------------ claims
Statuses == {"pending", "running"} \cup TerminalStatuses

\* The job row of request r, once CreateIngestionJob has inserted it.
HasRow(r) == req[r].job.ID \in DOMAIN ingestion_jobs
Row(r) == ingestion_jobs[req[r].job.ID]

\* The execution of request r has ended and its terminal write was applied.
Finished(r) == exec[r].pc = "exited" /\ Row(r).status \in TerminalStatuses

LegalMove(s, t) ==
    \/ s = t
    \/ s = "pending" /\ t = "running"
    \/ s = "running" /\ t \in TerminalStatuses

\* C1: every job row is inserted with status pending, its status is always one
\* of the five values, and every change of it is pending to running or running
\* to one of completed, partial, failed: nothing is skipped, nothing goes back.
C1_StatusSequence ==
    [][ /\ Len(ingestion_jobs') >= Len(ingestion_jobs)
        /\ \A i \in DOMAIN ingestion_jobs' :
              /\ ingestion_jobs'[i].status \in Statuses
              /\ IF i \in DOMAIN ingestion_jobs
                 THEN LegalMove(ingestion_jobs[i].status, ingestion_jobs'[i].status)
                 ELSE ingestion_jobs'[i].status = "pending" ]_vars

C1_Witness ==
    \E i \in DOMAIN ingestion_jobs : ingestion_jobs[i].status = "partial"

\* C2: the terminal status of a finished job is decided by how many of the three
\* kinds failed: none gives completed, one or two give partial, three give failed.
C2_StatusFromOutcomes ==
    \A r \in Requests :
        Finished(r) =>
            LET nFailed == Cardinality({k \in Kinds : exec[r].outcome[k] # "ok"})
            IN Row(r).status = (CASE nFailed = 0 -> "completed"
                                  [] nFailed \in {1, 2} -> "partial"
                                  [] OTHER -> "failed")

C2_Witness ==
    \E r \in Requests :
        /\ Finished(r)
        /\ exec[r].outcome["pr"] = "ok"
        /\ exec[r].outcome["issue"] = "ExternalServiceError"
        /\ exec[r].outcome["commit"] = "PersistenceError"
        /\ Row(r).status = "partial"

\* C3: a finished job one of whose steps failed with a rate-limit error is never
\* completed, also when that step is the job's only failure.
C3_RateLimitNeverCompleted ==
    \A r \in Requests :
        (Finished(r) /\ \E k \in Kinds : exec[r].outcome[k] = "RateLimitError")
            => Row(r).status \in {"partial", "failed"}

C3_Witness ==
    \E r \in Requests :
        /\ Finished(r)
        /\ exec[r].outcome["pr"] = "ok"
        /\ exec[r].outcome["issue"] = "RateLimitError"
        /\ exec[r].outcome["commit"] = "ok"
        /\ Row(r).status = "partial"

\* C4: the error text of a finished job is the message of the first failed kind
\* in the order pull requests, issues, commits, and NULL when no kind failed
\* (the job is completed).
C4_FirstFailureText ==
    \A r \in Requests :
        Finished(r) =>
            LET o == exec[r].outcome IN
            /\ Row(r).error_message =
                  IF o["pr"] # "ok" THEN <<"pr", o["pr"]>>
                  ELSE IF o["issue"] # "ok" THEN <<"issue", o["issue"]>>
                  ELSE IF o["commit"] # "ok" THEN <<"commit", o["commit"]>>
                  ELSE NULL
            /\ (Row(r).status = "completed") = (Row(r).error_message = NULL)

C4_Witness ==
    \E r \in Requests :
        /\ Finished(r)
        /\ exec[r].outcome["pr"] = "ok"
        /\ exec[r].outcome["issue"] = "RateLimitError"
        /\ exec[r].outcome["commit"] = "ExternalServiceError"
        /\ Row(r).error_message = <<"issue", "RateLimitError">>

\* C5: in every row, started_at is set iff the status is running or terminal,
\* finished_at is set iff the status is terminal, and the error text is set iff
\* the status is partial or failed.
C5_FieldsMatchStatus ==
    \A i \in DOMAIN ingestion_jobs :
        LET row == ingestion_jobs[i] IN
        /\ (row.started_at # NULL) = (row.status \in {"running"} \cup TerminalStatuses)
        /\ (row.finished_at # NULL) = (row.status \in TerminalStatuses)
        /\ (row.error_message # NULL) = (row.status \in {"partial", "failed"})

C5_Witness ==
    \E i \in DOMAIN ingestion_jobs :
        /\ ingestion_jobs[i].status = "failed"
        /\ ingestion_jobs[i].started_at # NULL
        /\ ingestion_jobs[i].finished_at # NULL
        /\ ingestion_jobs[i].error_message # NULL

\* C6: started_at is written only by the change pending to running, finished_at
\* and the error text only by the change running to a terminal status, each
\* into an empty column; a row in a terminal status never changes again.
C6_WrittenOnce ==
    [][ \A i \in DOMAIN ingestion_jobs :
          LET old == ingestion_jobs[i]
              new == ingestion_jobs'[i]
          IN
          /\ i \in DOMAIN ingestion_jobs'
          /\ new.started_at # old.started_at =>
                /\ old.started_at = NULL
                /\ old.status = "pending" /\ new.status = "running"
          /\ (new.finished_at # old.finished_at \/ new.error_message # old.error_message) =>
                /\ old.finished_at = NULL /\ old.error_message = NULL
                /\ old.status = "running" /\ new.status \in TerminalStatuses
          /\ old.status \in TerminalStatuses => new = old ]_vars

C6_Witness ==
    \E i \in DOMAIN ingestion_jobs :
        /\ ingestion_jobs[i].status = "partial"
        /\ ingestion_jobs[i].started_at = <<1>>
        /\ ingestion_jobs[i].finished_at = <<2>>

\* C7: an execution that has come to its terminal write has run the step of
\* every kind, whatever the earlier steps returned, and recorded each failure
\* as the failure of its own kind.
C7_AllStepsAttempted ==
    \A r \in Requests :
        exec[r].pc \in {"finalize", "exited"} =>
            \A k \in Kinds :
                exec[r].outcome[k] \in
                    {"ok", "ExternalServiceError", "RateLimitError", "PersistenceError"}

C7_Witness ==
    \E r \in Requests :
        /\ exec[r].pc = "exited"
        /\ exec[r].outcome["pr"] = "RateLimitError"
        /\ exec[r].outcome["issue"] = "PersistenceError"
        /\ exec[r].outcome["commit"] = "ok"

\* The step of some kind of request r has ended and is the latest one.
StepEnded(r) ==
    /\ exec[r].step.kind # ""
    /\ exec[r].pc = AfterStep(exec[r].step.kind)

\* C8 as claimed: when a step has ended, an extraction that succeeded has all
\* its entities stored and an extraction that failed has none stored.
C8_AsClaimed ==
    \A r \in Requests :
        StepEnded(r) =>
            LET st == exec[r].step IN
            /\ st.extracted => st.persisted = st.fetched
            /\ ~st.extracted => st.persisted = 0

\* C8 (amended): when a step has ended, a kind that did not fail has all its
\* extracted entities stored; a kind whose extraction failed has none stored;
\* a kind whose extraction succeeded and one of whose upserts failed is failed
\* and has stored fewer entities than were extracted.
C8_PersistedPerOutcome ==
    \A r \in Requests :
        StepEnded(r) =>
            LET st == exec[r].step
                o  == exec[r].outcome[st.kind]
            IN
            /\ o = "ok" => st.extracted /\ st.persisted = st.fetched
            /\ ~st.extracted =>
                  o \in {"ExternalServiceError", "RateLimitError"} /\ st.persisted = 0
            /\ (st.extracted /\ o # "ok") =>
                  o = "PersistenceError" /\ st.persisted < st.fetched

C8_Witness ==
    \E r \in Requests :
        /\ exec[r].pc = "finalize"
        /\ exec[r].outcome["pr"] = "ok"
        /\ exec[r].outcome["issue"] = "RateLimitError"
        /\ exec[r].outcome["commit"] = "ok"
        /\ exec[r].step.kind = "commit"
        /\ exec[r].step.fetched = MaxItems
        /\ exec[r].step.persisted = MaxItems

\* C9: a request whose job has left pending is answered 201 with the job's id
\* and the status pending, whatever the job's execution has met since.
C9_NoErrorAfterRunning ==
    \A r \in Requests :
        (req[r].resp # NoResp /\ HasRow(r) /\ Row(r).status # "pending") =>
            req[r].resp = [code |-> 201, type |-> "", job_id |-> req[r].job.ID,
                           status |-> "pending"]

C9_Witness ==
    \E r \in Requests :
        /\ req[r].resp.code = 201
        /\ HasRow(r)
        /\ Row(r).status = "failed"

\* C10: a request that met an error before its job was running is answered with
\* that error: if the job row could not be inserted there is no row, and if
\* ProcessJob returned an error the row is pending, has no timestamps and no
\* execution; a finished request whose row is pending got the error.
C10_ErrorBeforeRunning ==
    \A r \in Requests :
        /\ req[r].resp.type = "job_creation_error" =>
              req[r].resp.code = 500 /\ ~HasRow(r)
        /\ req[r].resp.type = "job_processing_error" =>
              /\ req[r].resp.code = 500
              /\ HasRow(r)
              /\ Row(r) = [repo_id |-> req[r].job.RepoID, status |-> "pending",
                           started_at |-> NULL, finished_at |-> NULL,
                           error_message |-> NULL]
              /\ exec[r].pc = "none"
        /\ (req[r].pc = "done" /\ HasRow(r) /\ Row(r).status = "pending") =>
              req[r].resp = ErrorResp(500, "job_processing_error")

C10_Witness ==
    \E r \in Requests :
        /\ req[r].resp.type = "job_processing_error"
        /\ HasRow(r)
        /\ Row(r).status = "pending"

RequestLevelFailure(a) == a.net \/ a.status >= 500

\* A response that succeeds: no error status and a body that decodes.
Succeeds(a) == ~a.net /\ a.status < 400 /\ a.decodes

\* C14: when the first attempt fails with a network error or a 5xx status and
\* the second succeeds, the call returns no error and the value decoded from the
\* second response, two requests were made, and what the caller gets is what it
\* gets from a transport whose first answer is that second response.
C14_RetrySucceeds ==
    (call.op = "makeRequest" /\ RequestLevelFailure(call.a1) /\ Succeeds(call.a2)) =>
        LET direct == makeRequest(call.a2, call.a2,
                                  [i \in 1..2 |-> call.bodies[2]], call.resets)
        IN
        /\ call.ret.err = "nil"
        /\ call.ret.result = <<call.bodies[2]>>
        /\ call.ret.requests = 2
        /\ direct.requests = 1
        /\ [call.ret EXCEPT !.requests = 1] = direct

C14_Witness ==
    /\ call.op = "makeRequest"
    /\ call.a1 = NetErr
    /\ call.a2 = HttpResp(200, FALSE, TRUE)
    /\ call.bodies = <<"body1", "body2">>
    /\ call.ret.err = "nil"
    /\ call.ret.result = <<"body2">>
    /\ call.ret.requests = 2

\* C15: a call makes one or two requests; it makes a second one exactly when the
\* first attempt failed at the request level; and when the second attempt fails
\* as well, whatever the two failures are, the call returns an error.
C15_AtMostTwoRequests ==
    call.op = "makeRequest" =>
        /\ call.ret.requests \in {1, 2}
        /\ (call.ret.requests = 2) = RequestLevelFailure(call.a1)
        /\ (RequestLevelFailure(call.a1) /\ RequestLevelFailure(call.a2)) =>
              /\ call.ret.err = (IF call.a2.net THEN "network" ELSE "status")
              /\ call.ret.result = NULL

C15_Witness ==
    /\ call.op = "makeRequest"
    /\ call.a1 = HttpResp(500, FALSE, FALSE)
    /\ call.a2 = NetErr
    /\ call.ret.err = "network"
    /\ call.ret.requests = 2

\* The responses the call of the state received, in order.
Received == IF call.ret.requests = 1 THEN <<call.a1>> ELSE <<call.a1, call.a2>>

\* C16 as claimed: whenever the call receives a response with a 4xx status and
\* X-RateLimit-Remaining equal to zero, that response ends the call with a
\* rate-limit error carrying the response's X-RateLimit-Reset value, an error of
\* another kind than the one a 4xx response without that header value gives.
C16_AsClaimed ==
    call.op = "makeRequest" =>
        \A i \in DOMAIN Received :
            LET a == Received[i] IN
            (~a.net /\ a.status >= 400 /\ a.status < 500 /\ a.remaining0) =>
                /\ call.ret.requests = i
                /\ call.ret.err = "ratelimit"
                /\ call.ret.reset = <<call.resets[i]>>
                /\ call.ret.err #
                      makeRequest([a EXCEPT !.remaining0 = FALSE], call.a2,
                                  call.bodies, call.resets).err

GetOps == {"GetPullRequests", "GetIssues", "GetCommits"}

\* C12 as claimed: whatever the limit and the listing response, a call returns
\* at most `limit` entities.
C12_AsClaimed ==
    call.op \in GetOps => Len(Items(call.ret)) <= call.limit

\* The entries of a listing that are of the listing's own kind: in an issue
\* listing, those without the pull-request linkage field.
Genuine(op, listing) ==
    IF op = "GetIssues"
    THEN SelectSeq(listing, LAMBDA g : g.pull_request = NULL)
    ELSE listing

\* C13 as claimed: when the repository has more than `limit` entries of the kind
\* upstream and the listing request succeeds, the call returns exactly `limit`
\* entities, those of the first `limit` entries of the kind in listing order.
C13_AsClaimed ==
    (/\ call.op \in GetOps
     /\ call.listErr = "nil"
     /\ call.honours
     /\ Len(Genuine(call.op, call.upstream)) > call.limit) =>
        LET own == Genuine(call.op, call.upstream) IN
        /\ call.ret.err = "nil"
        /\ Len(Items(call.ret)) = call.limit
        /\ \A i \in 1..call.limit :
              i \in DOMAIN Items(call.ret) /\
              CASE call.op = "GetPullRequests" ->
                       /\ Items(call.ret)[i].ID = own[i].id
                       /\ Items(call.ret)[i].CreatedAt = own[i].created_at
                [] call.op = "GetIssues" ->
                       /\ Items(call.ret)[i].ID = own[i].id
                       /\ Items(call.ret)[i].CreatedAt = own[i].created_at
                [] OTHER ->
                       /\ Items(call.ret)[i].SHA = own[i].sha
                       /\ Items(call.ret)[i].CreatedAt = own[i].date

\* C17: when the listing request of GetPullRequests succeeds the call returns no
\* error and one entity per entry of the listing, in listing order, whatever
\* the files requests returned; an entity whose files request failed has an
\* empty file list, every other one the filenames returned for it, in order.
C17_FilesFailureNonFatal ==
    (call.op = "GetPullRequests" /\ call.listErr = "nil") =>
        /\ call.ret.err = "nil"
        /\ Len(Items(call.ret)) = Len(call.page)
        /\ \A i \in DOMAIN call.page :
              LET pr == Items(call.ret)[i] IN
              /\ pr.ID = call.page[i].id
              /\ pr.Number = call.page[i].number
              /\ pr.FilesChanged =
                    IF call.files[i].err # "nil" THEN <<(<<>>)>>
                    ELSE <<[j \in DOMAIN call.files[i].body |->
                               call.files[i].body[j].filename]>>

C17_Witness ==
    /\ call.op = "GetPullRequests"
    /\ call.ret.err = "nil"
    /\ Len(call.page) = 2
    /\ call.files[1].err = "network"
    /\ call.files[1].body # <<>>
    /\ call.files[2].err = "nil"
    /\ Items(call.ret)[1].FilesChanged = <<(<<>>)>>
    /\ Items(call.ret)[2].FilesChanged = <<(<<"a.go", "b.go">>)>>

\* C18 as claimed: the issues GetIssues returns are the entries of the listing
\* response that are not pull requests, in listing order, and none of them
\* comes from an entry that carries the pull-request linkage field.
C18_AsClaimed ==
    (call.op = "GetIssues" /\ call.listErr = "nil") =>
        LET own == SelectSeq(call.page, LAMBDA g : g.pull_request = NULL) IN
        /\ Len(Items(call.ret)) = Len(own)
        /\ \A i \in DOMAIN own :
              /\ i \in DOMAIN Items(call.ret)
              /\ Items(call.ret)[i].ID = own[i].id
        /\ \A i \in DOMAIN Items(call.ret) :
              \A j \in DOMAIN call.page :
                  call.page[j].id = Items(call.ret)[i].ID =>
                      call.page[j].pull_request = NULL

PullRequestFields == {"ID", "Number", "Title", "Body", "Author", "State",
                      "CreatedAt", "MergedAt", "FilesChanged", "Labels"}
IssueFields == {"ID", "Title", "Body", "Author", "State", "CreatedAt", "ClosedAt",
                "Labels"}
CommitFields == {"SHA", "Message", "Author", "CreatedAt", "FilesChanged"}

\* The text of a body the payload may leave out (an absent body is no text).
TextOf(v) == IF v = NULL THEN "" ELSE v[1]
\* The names of an array of objects the payload may leave out.
NamesOf(arr) == IF arr = NULL THEN <<>> ELSE [j \in DOMAIN arr[1] |-> arr[1][j].name]
FilenamesOf(arr) == IF arr = NULL THEN <<>> ELSE [j \in DOMAIN arr[1] |-> arr[1][j].filename]

\* Entity e has exactly the fields of a pull request, each with the value of
\* payload g, its file list being `changed`.
IsPullRequestOf(e, g, changed) ==
    /\ DOMAIN e = PullRequestFields
    /\ e.ID = g.id /\ e.Number = g.number /\ e.Title = g.title
    /\ e.Body = TextOf(g.body) /\ e.Author = g.user /\ e.State = g.state
    /\ e.CreatedAt = g.created_at /\ e.MergedAt = g.merged_at
    /\ e.FilesChanged = <<changed>>
    /\ e.Labels = <<NamesOf(g.labels)>>

IsIssueOf(e, g) ==
    /\ DOMAIN e = IssueFields
    /\ e.ID = g.id /\ e.Title = g.title
    /\ e.Body = TextOf(g.body) /\ e.Author = g.user /\ e.State = g.state
    /\ e.CreatedAt = g.created_at /\ e.ClosedAt = g.closed_at
    /\ e.Labels = <<NamesOf(g.labels)>>

IsCommitOf(e, g) ==
    /\ DOMAIN e = CommitFields
    /\ e.SHA = g.sha /\ e.Message = g.message /\ e.Author = g.author
    /\ e.CreatedAt = g.date
    /\ e.FilesChanged = <<FilenamesOf(g.files)>>

\* A call whose listing request succeeded on a response without pull-request
\* entries in an issue listing: entity i comes from entry i.
Normalizes ==
    /\ call.op \in GetOps
    /\ call.listErr = "nil"
    /\ call.op = "GetIssues" => \A j \in DOMAIN call.page : call.page[j].pull_request = NULL

\* The payloads that differ from g at most in fields outside the allow-list.
SameAllowListed(op, g) ==
    IF op = "GetIssues"
    THEN {[g EXCEPT !.extra = x, !.number = n] : x \in {"x", "y"}, n \in {1, 2}}
    ELSE {[g EXCEPT !.extra = x] : x \in {"x", "y"}}

\* Entity number i of the call of the state, had entry i of the response been h.
NormalizedAs(i, h) ==
    LET page == [call.page EXCEPT ![i] = h] IN
    CASE call.op = "GetPullRequests" ->
             Items(PullRequestsFrom("nil", page, call.files))[i]
      [] call.op = "GetIssues" -> Items(IssuesFrom("nil", page))[i]
      [] OTHER -> Items(CommitsFrom("nil", page))[i]

C20_RoundTrip ==
    /\ call.op = "StoreAndRead" =>
          /\ call.back.FilesChanged = call.pr.FilesChanged
          /\ call.back.Labels = call.pr.Labels
          /\ call.row.files_changed # NULL /\ call.row.labels # NULL
          /\ call.pr.FilesChanged = <<(<<>>)>> =>
                /\ call.row.files_changed =
                      <<(<<[t |-> "punct", v |-> "["], [t |-> "punct", v |-> "]"]>>)>>
                /\ call.back.FilesChanged = <<(<<>>)>>
    /\ (call.op \in GetOps /\ call.ret.err = "nil") =>
          \A i \in DOMAIN Items(call.ret) :
              LET e == Items(call.ret)[i] IN
              /\ "FilesChanged" \in DOMAIN e => e.FilesChanged \in StringLists
              /\ "Labels" \in DOMAIN e => e.Labels \in StringLists
    /\ (call.op = "GetPullRequests" /\ call.ret.err = "nil") =>
          \A i \in DOMAIN call.page :
              call.files[i].err # "nil" => Items(call.ret)[i].FilesChanged = <<(<<>>)>>

C20_Witness ==
    /\ call.op = "StoreAndRead"
    /\ call.pr.FilesChanged = <<(<<>>)>>
    /\ call.pr.Labels = <<(<<"docs", "bug">>)>>
    /\ call.back.FilesChanged = <<(<<>>)>>
    /\ call.back.Labels = <<(<<"docs", "bug">>)>>

\* The pull-request rows holding the natural key of pr.
Keyed(rows, pr) == {row \in rows : row.repo_id = pr.RepoID /\ row.number = pr.Number}

\* C21: an upsert of a pull request whose (repo_id, number) is stored adds no
\* row; the stored row takes the title, body, state, merged timestamp, files
\* and labels of the upsert and keeps its id and creation time; and the same
\* upsert applied a second time changes nothing.
C21_UpsertOverwritesMutable ==
    [][(call'.op = "CreatePullRequest" /\ call'.err = NULL) =>
        /\ Keyed(db.pull_requests, call'.arg) # {} =>
            /\ Cardinality(db'.pull_requests) = Cardinality(db.pull_requests)
            /\ \A old \in Keyed(db.pull_requests, call'.arg) :
                 \E row \in Keyed(db'.pull_requests, call'.arg) :
                    /\ row.id = old.id
                    /\ row.created_at = old.created_at
                    /\ row.title = call'.arg.Title
                    /\ row.body = call'.arg.Body
                    /\ row.state = call'.arg.State
                    /\ row.merged_at = call'.arg.MergedAt
                    /\ StringListScan(row.files_changed) = call'.arg.FilesChanged
                    /\ StringListScan(row.labels) = call'.arg.Labels
        /\ (call.op = "CreatePullRequest" /\ call.err = NULL /\ call.arg = call'.arg)
              => db' = db
    ]_vars

\* A stored pull request was upserted with a new title and a merged timestamp,
\* under another id and creation time.
C21_Witness ==
    /\ call.op = "CreatePullRequest"
    /\ call.err = NULL
    /\ call.arg.Title = "retitled"
    /\ call.arg.MergedAt # NULL
    /\ call.was # {}
    /\ call.arg.CreatedAt \notin call.was
    /\ \E row \in Keyed(db.pull_requests, call.arg) :
          /\ row.title = "retitled" /\ row.merged_at # NULL
          /\ row.id # call.arg.ID /\ row.created_at \in call.was

UpsertOps == {"CreatePullRequest", "CreateIssue", "CreateCommit"}

\* The rows of the table an upsert writes that hold the natural key of its
\* argument.
KeyedBy(d, op, arg) ==
    CASE op = "CreatePullRequest" -> Keyed(d.pull_requests, arg)
      [] op = "CreateIssue" -> {row \in d.issues : row.id = arg.ID}
      [] op = "CreateCommit" -> {row \in d.commits : row.sha = arg.SHA}

\* C22 as stated: a successful upsert of any of the three kinds inserts a row
\* when its natural key is absent and otherwise leaves the creation time (and
\* the key) of the stored row as it was.
C22_AsClaimed ==
    (call.op \in UpsertOps /\ call.err = NULL) =>
        /\ Cardinality(KeyedBy(db, call.op, call.arg)) = 1
        /\ call.was # {} =>
              \A row \in KeyedBy(db, call.op, call.arg) : row.created_at \in call.was

\* The rows of a table as the entities a read returns for them.
Stored(d, t) ==
    CASE t = "pull_requests" -> {ScanPullRequest(row) : row \in d.pull_requests}
      [] t = "issues" -> {ScanIssue(row) : row \in d.issues}
      [] t = "commits" -> {ScanCommit(row) : row \in d.commits}

Returned(ret) == IF ret.items = NULL THEN <<>> ELSE ret.items[1]

\* C24: a read of the recent pull requests, issues or commits of a repository
\* with a limit returns at most `limit` entities, all of that repository and
\* all stored, in non-increasing order of creation time, and no stored entity
\* of the repository that it leaves out is newer than one it returns.
C24_BoundedRecentRead ==
    (call.op = "GetRecent" /\ call.ret.err = NULL) =>
        LET items == Returned(call.ret)
            mine == {e \in Stored(db, call.table) : e.RepoID = call.repoID}
        IN /\ Len(items) <= call.limit
           /\ \A i \in DOMAIN items : items[i] \in mine
           /\ \A i, j \in DOMAIN items : i < j => items[i].CreatedAt >= items[j].CreatedAt
           /\ \A e \in mine :
                 (\A i \in DOMAIN items : items[i] # e) =>
                     \A i \in DOMAIN items : e.CreatedAt <= items[i].CreatedAt

\* A read with limit 1 of a repository holding an older and a newer issue.
C24_Witness ==
    /\ call.op = "GetRecent"
    /\ call.table = "issues"
    /\ call.limit = 1
    /\ call.ret.err = NULL
    /\ Len(Returned(call.ret)) = 1
    /\ \E e \in Stored(db, "issues") :
          /\ e.RepoID = call.repoID
          /\ e.CreatedAt < Returned(call.ret)[1].CreatedAt

\* C25: an upsert that meets a data-layer error (an unknown repository id, a
\* primary-key clash, a lost connection) returns that error, without a further
\* attempt, and leaves every table as it was.
C25_UpsertFailStop ==
    [][call'.op \in UpsertOps =>
        LET arg == call'.arg
            stored == KeyedBy(db, call'.op, arg)
        IN /\ call'.err # NULL => db' = db
           /\ call'.lost => call'.err = ConnectionLost
           /\ (stored = {} /\ arg.RepoID \notin RepoIdsOf(db)) => call'.err # NULL
           /\ (/\ call'.op = "CreatePullRequest"
               /\ stored = {}
               /\ \E row \in db.pull_requests : row.id = arg.ID) => call'.err # NULL
           /\ call'.err = NULL => KeyedBy(db', call'.op, arg) # {}
    ]_vars

\* The connection was lost in an upsert of a stored pull request that carried
\* a new title; the stored row has the old one.
C25_Witness ==
    /\ call.op = "CreatePullRequest"
    /\ call.lost
    /\ call.err = ConnectionLost
    /\ call.arg.Title = "retitled"
    /\ \E row \in Keyed(db.pull_requests, call.arg) : row.title = "title"

\* C23: whatever upserts have run, failed or not, no two pull-request rows
\* share (repo_id, number), no two issue rows share an id, no two commit rows
\* share a hash, and no two repository rows share a full name.
C23_NaturalKeysUnique ==
    /\ \A a, b \in db.pull_requests :
           (a.repo_id = b.repo_id /\ a.number = b.number) => a = b
    /\ \A a, b \in db.issues : a.id = b.id => a = b
    /\ \A a, b \in db.commits : a.sha = b.sha => a = b
    /\ \A a, b \in db.repos : a.full_name = b.full_name => a = b

\* An upsert refused for its id while two pull requests are stored.
C23_Witness ==
    /\ call.op = "CreatePullRequest"
    /\ call.err = UniqueViolation
    /\ Cardinality(db.pull_requests) = 2
    /\ Cardinality(db.repos) = 2

\* The row one upsert of one job writes, per kind.
WrittenBy(j, kind, filesFailed) ==
    CASE kind = "pr" -> PullRequestRow(JobEntity(j, kind, filesFailed))
      [] kind = "issue" -> IssueRow(JobEntity(j, kind, filesFailed))
      [] kind = "commit" -> CommitRow(JobEntity(j, kind, filesFailed))

TableOf(d, kind) ==
    CASE kind = "pr" -> d.pull_requests
      [] kind = "issue" -> d.issues
      [] kind = "commit" -> d.commits

JobNext(j) ==
    \/ JobCreate(j)
    \/ JobStart(j)
    \/ \E kind \in Kinds : JobStep(j, kind)
    \/ JobFinish(j)

JobRow(j) == ingestion_jobs[workers[j].jobID]

\* C27: no step of a job changes the row of another job.
C27_OwnRowOnly ==
    [][\A j \in Jobs :
          workers'[j] = workers[j] =>
              (workers[j].jobID \in DOMAIN ingestion_jobs =>
                  ingestion_jobs'[workers[j].jobID] = JobRow(j))
    ]_vars

\* Both jobs have a row for the same repository; one has written its terminal
\* status while the other is running.
C27_Witness ==
    /\ \A j \in Jobs : workers[j].jobID \in DOMAIN ingestion_jobs
    /\ JobRow(1).repo_id = JobRow(2).repo_id
    /\ JobRow(1).status = "partial"
    /\ JobRow(2).status = "running"
    /\ workers[2].pc = "commit"

\* C28 as stated: a job whose request was cancelled while it was running still
\* ends with a terminal status, unless the database connection was lost.
C28_AsClaimed ==
    \A j \in Jobs :
        (workers[j].pc = "exited" /\ ~workers[j].lost) =>
            JobRow(j).status \in TerminalStatuses

\* C29 as stated: a job whose three kinds were extracted and stored without
\* error, but one of whose files requests failed, ends in partial.
C29_AsClaimed ==
    \A j \in Jobs :
        (/\ workers[j].pc = "exited"
         /\ \A kind \in Kinds : workers[j].outcome[kind] = "ok"
         /\ workers[j].degraded
         /\ ~workers[j].cancelled /\ ~workers[j].lost) =>
            JobRow(j).status = "partial"

\* C30: a job is in one step at a time, in the order pull requests, issues,
\* commits: while it extracts or stores pull requests no other kind has been
\* started; it extracts or stores issues only when the pull-request step has
\* ended (its outcome is recorded) and the commits have not been started; and
\* it extracts or stores commits only when both other steps have ended.
C30_StrictlySequential ==
    \A r \in Requests :
        LET e == exec[r] IN
        /\ e.pc \in {"fetch_pr", "persist_pr"} =>
              \A kind \in Kinds : e.outcome[kind] = "none"
        /\ e.pc \in {"fetch_issue", "persist_issue"} =>
              /\ e.outcome["pr"] # "none"
              /\ e.outcome["issue"] = "none" /\ e.outcome["commit"] = "none"
        /\ e.pc \in {"fetch_commit", "persist_commit"} =>
              /\ e.outcome["pr"] # "none" /\ e.outcome["issue"] # "none"
              /\ e.outcome["commit"] = "none"

\* The commits are about to be requested after a pull-request step that stored
\* its pull request and an issue step whose listing failed.
C30_Witness ==
    \E r \in Requests :
        /\ exec[r].pc = "fetch_commit"
        /\ exec[r].outcome["pr"] = "ok"
        /\ exec[r].outcome["issue"] = "ExternalServiceError"

\* The repos rows holding a full name.
Named(d, fullName) == {row \in d.repos : row.full_name = fullName}

\* C31: a CreateRepo that succeeds on a full name not stored adds one row and
\* returns its id, which no row had; on a stored full name it adds no row,
\* returns the stored row's id, gives that row the name, owner and update time
\* of the call and keeps its creation time (and its id).
C31_RepoUpsertByFullName ==
    [][(call'.op = "CreateRepo" /\ call'.err = NULL) =>
        LET repo == call'.arg
            old == Named(db, repo.FullName)
            now == Named(db', repo.FullName)
        IN /\ Cardinality(now) = 1
           /\ \A row \in now : row.id = call'.id
           /\ \A row \in now :
                 row.name = repo.Name /\ row.owner = repo.Owner /\ row.updated_at = RepoNow
           /\ db'.repos \ now = db.repos \ old
           /\ old = {} => \A row \in db.repos : row.id # call'.id
           /\ old # {} =>
                 \A row \in old : \E kept \in now :
                    kept.id = row.id /\ kept.created_at = row.created_at
    ]_vars

\* "o/b", stored at an earlier call, was registered again under another name
\* and owner, and the call returned the id the row already had.
C31_Witness ==
    /\ call.op = "CreateRepo"
    /\ call.err = NULL
    /\ call.arg = Repository("o/b", 2)
    /\ call.was # {}
    /\ call.id = 2
    /\ \E row \in Named(db, "o/b") : row.name = "renamed" /\ row.owner = "p"
    /\ \E row \in Named(db, "o/a") : row.updated_at > row.created_at

\* C32: a status request for a repository with jobs answers 200 with the job
\* of the greatest id among that repository's rows, as the row is now; for a
\* repository without jobs it answers 404.
C32_LatestJobReturned ==
    (/\ call.op = "GetRepoStatus"
     /\ call.method = "GET" /\ call.path # 0 /\ ~call.queryFails) =>
        LET mine == {i \in DOMAIN ingestion_jobs : ingestion_jobs[i].repo_id = call.path}
        IN IF mine = {} THEN call.resp.code = 404 /\ call.resp.job = NULL
           ELSE /\ call.resp.code = 200
                /\ call.resp.job # NULL
                /\ LET job == call.resp.job[1] IN
                   /\ job.ID \in mine
                   /\ \A i \in mine : i <= job.ID
                   /\ job.RepoID = call.path
                   /\ job.Status = ingestion_jobs[job.ID].status
                   /\ job.StartedAt = ingestion_jobs[job.ID].started_at
                   /\ job.FinishedAt = ingestion_jobs[job.ID].finished_at
                   /\ job.ErrorMsg = ingestion_jobs[job.ID].error_message

\* The repository has an older job that failed and a newer one that is running;
\* the request returned the newer.
C32_Witness ==
    /\ call.op = "GetRepoStatus"
    /\ call.resp.code = 200
    /\ Len(ingestion_jobs) = 2
    /\ ingestion_jobs[1].repo_id = call.path /\ ingestion_jobs[2].repo_id = call.path
    /\ ingestion_jobs[1].status = "failed"
    /\ ingestion_jobs[1].error_message # NULL
    /\ call.resp.job[1].ID = 2
    /\ call.resp.job[1].Status = "running"

\* C38: a write to a row of the job table that adds no row changes one row
\* only and keeps its repo_id; when it leaves the row running it has set
\* started_at to the time of the call and kept finished_at and error_message;
\* otherwise it has set finished_at to the time of the call and kept
\* started_at.
C38_UpdateTouchesOwnColumns ==
    [][(Len(ingestion_jobs') = Len(ingestion_jobs) /\ ingestion_jobs' # ingestion_jobs) =>
        \E jobID \in DOMAIN ingestion_jobs :
            LET old == ingestion_jobs[jobID]
                new == ingestion_jobs'[jobID]
            IN /\ \A i \in DOMAIN ingestion_jobs : i # jobID => ingestion_jobs'[i] = ingestion_jobs[i]
               /\ new.repo_id = old.repo_id
               /\ IF new.status = "running"
                  THEN /\ new.started_at = Now(ingestion_jobs, jobID)
                       /\ new.finished_at = old.finished_at
                       /\ new.error_message = old.error_message
                  ELSE /\ new.finished_at = Now(ingestion_jobs, jobID)
                       /\ new.started_at = old.started_at
    ]_vars

\* A row that failed with an error text was then set running and has kept its
\* finish time and error text, next to a pending row of the same repository.
C38_Witness ==
    /\ Len(ingestion_jobs) = 2
    /\ ingestion_jobs[1].status = "running"
    /\ ingestion_jobs[1].started_at = <<2>>
    /\ ingestion_jobs[1].finished_at = <<1>>
    /\ ingestion_jobs[1].error_message # NULL
    /\ ingestion_jobs[2].status = "pending"
    /\ ingestion_jobs[2].repo_id = ingestion_jobs[1].repo_id

\* The natural key of an entity of an upsert, as a read returns it.
SameKey(op, e, arg) ==
    IF op = "CreateIssue" THEN e.ID = arg.ID ELSE e.SHA = arg.SHA

RecentOf(d, op, repoID, limit) ==
    IF op = "CreateIssue" THEN GetRecentIssues(d, repoID, limit, FALSE)
    ELSE GetRecentCommits(d, repoID, limit, FALSE)

\* C39: an upsert of an issue or a commit whose id or hash is stored leaves
\* the stored row with the repository it had; when the upsert names another
\* repository, no read of the recent issues or commits of that repository
\* returns the row.
C39_OwnerKept ==
    [][(call'.op \in {"CreateIssue", "CreateCommit"} /\ call'.err = NULL) =>
        \A old \in KeyedBy(db, call'.op, call'.arg) :
            /\ \A row \in KeyedBy(db', call'.op, call'.arg) : row.repo_id = old.repo_id
            /\ call'.arg.RepoID # old.repo_id =>
                  \A limit \in Limits :
                     \A ret \in RecentOf(db', call'.op, call'.arg.RepoID, limit) :
                        \A i \in DOMAIN Returned(ret) :
                            ~SameKey(call'.op, Returned(ret)[i], call'.arg)
    ]_vars

\* A commit stored under repository 1 was upserted under repository 2, which
\* holds another commit; the row took the new message and is still of
\* repository 1.
C39_Witness ==
    /\ call.op = "CreateCommit"
    /\ call.err = NULL
    /\ call.was # {}
    /\ call.arg.RepoID = 2
    /\ call.arg.Message = "amended"
    /\ \E row \in db.commits :
          row.sha = call.arg.SHA /\ row.repo_id = 1 /\ row.message = "amended"
    /\ \E row \in db.commits : row.repo_id = 2

\* A response with a 4xx status that the client does not take for a rate limit.
ClientError(a) ==
    ~a.net /\ a.status >= 400 /\ a.status < 500 /\ ~(a.status = 403 /\ a.remaining0)

\* C36: a 4xx response that is not a rate-limit response ends the call with an
\* error and without a further request: after one request when it answers the
\* first attempt, after two when it answers the retry of a failed first one.
C36_ClientErrorNotRetried ==
    call.op = "makeRequest" =>
        /\ ClientError(call.a1) =>
              /\ call.ret.err = "status"
              /\ call.ret.requests = 1
              /\ call.ret.result = NULL
        /\ (RequestLevelFailure(call.a1) /\ ClientError(call.a2)) =>
              /\ call.ret.err = "status"
              /\ call.ret.requests = 2
              /\ call.ret.result = NULL

\* A 404 answered the first attempt although the transport would have answered
\* a second one with 200.
C36_Witness ==
    /\ call.op = "makeRequest"
    /\ call.a1 = HttpResp(404, FALSE, FALSE)
    /\ call.a2 = HttpResp(200, FALSE, TRUE)
    /\ call.ret.err = "status"
    /\ call.ret.requests = 1

\* An ingest request the handler rejects before it creates a job.
Rejected(input) ==
    input.method # "POST" \/ ~input.authed \/ ~input.bodyOK \/ input.repoID = 0

\* C37: an ingest request with another method than POST, without a user in
\* its context, with a body that does not decode, or with repo_id 0 or absent
\* is answered 405, 401, 400 and 400 in that order of tests, with an error body
\* of the same code; it has no job and no execution, and the job table has as
\* many rows as there are requests that got a job.
C37_RejectedBeforeJob ==
    /\ Len(ingestion_jobs) = Cardinality({r \in Requests : req[r].job # NoJob})
    /\ \A r \in Requests :
          (req[r].input # NoInput /\ Rejected(req[r].input)) =>
              /\ req[r].pc = "done"
              /\ req[r].job = NoJob
              /\ exec[r] = NoExec
              /\ req[r].resp.code =
                    (IF req[r].input.method # "POST" THEN 405
                     ELSE IF ~req[r].input.authed THEN 401 ELSE 400)
              /\ req[r].resp.type =
                    (IF req[r].input.method # "POST" THEN "method_not_allowed"
                     ELSE IF ~req[r].input.authed THEN "unauthorized"
                     ELSE "invalid_request")
              /\ req[r].resp.job_id = 0

\* An authenticated POST whose body decodes to repo_id 0 was answered 400 and
\* the job table is empty.
C37_Witness ==
    \E r \in Requests :
        /\ req[r].input = [method |-> "POST", authed |-> TRUE, bodyOK |-> TRUE,
                           repoID |-> 0]
        /\ req[r].resp.code = 400
        /\ ingestion_jobs = <<>>

\* C33: the token GenerateJWT builds for a user, validated under the same
\* secret from its issue to its expiry, gives no error and a user with the id,
\* login, email and GitHub token of the original.
C33_RoundTrip ==
    (/\ call.op = "ValidateJWT"
     /\ call.how = "asIssued"
     /\ call.signSecret = call.checkSecret
     /\ call.issuedAt <= call.now /\ call.now <= call.issuedAt + TokenLifetime) =>
        /\ call.ret.err = "nil"
        /\ call.ret.user = Some(call.user)

\* The user with four empty fields, validated at the last tick of the lifetime.
C33_Witness ==
    /\ call.op = "ValidateJWT"
    /\ call.how = "asIssued"
    /\ call.signSecret = call.checkSecret
    /\ call.user = [ID |-> "", Login |-> "", Email |-> "", GitHubToken |-> ""]
    /\ call.now = call.issuedAt + TokenLifetime
    /\ call.ret.err = "nil"
    /\ call.ret.user = Some(call.user)

\* The presented token is not the issued one in a way the claim names: it has
\* other than three parts, it carries claims or parts the signature was not
\* made for, it was signed under another secret, or its expiry has passed.
Forged ==
    \/ call.how \in {"twoParts", "fourParts", "empty"}
    \/ call.how = "garbage"
    \/ call.how = "newClaims" /\ call.other # call.user
    \/ call.how \in {"asIssued", "newClaims", "signedJunk", "otherAlg"}
         /\ call.signSecret # call.checkSecret
    \/ call.how \in {"asIssued", "newClaims", "otherAlg"}
         /\ call.issuedAt + TokenLifetime < call.now

\* C34: ValidateJWT gives an error and no user for a token without exactly
\* three parts, a token whose signature is not that of its header and claims
\* under the validating secret, and a token whose expiry has passed.
C34_InvalidTokenRejected ==
    (call.op = "ValidateJWT" /\ Forged) =>
        /\ call.ret.err # "nil"
        /\ call.ret.user = NULL

\* Another user's claims under the issued signature, inside the lifetime and
\* under the right secret, are turned down for the signature.
C34_Witness ==
    /\ call.op = "ValidateJWT"
    /\ call.how = "newClaims"
    /\ call.other # call.user
    /\ call.signSecret = call.checkSecret
    /\ call.now = call.issuedAt
    /\ call.ret.err = "invalid token signature"
    /\ call.ret.user = NULL

\* The protected endpoints: /api/repos, /api/repos/ingest, /api/repos/{id}/status
\* and /api/context/query.
Protected ==
    call.path \in {<<"api", "repos">>, <<"api", "repos", "ingest">>,
                   <<"api", "repos", "1", "status">>, <<"api", "context", "query">>}

\* The request was refused for its token: 401 "unauthorized", no handler run.
Refused ==
    /\ call.resp = Answer(401, "unauthorized")
    /\ call.handler = "none"

\* C35 as stated: every request to a protected endpoint without a valid token is
\* answered 401 "unauthorized" and runs no handler.
C35_AsClaimed ==
    (call.op = "ServeHTTP" /\ Protected /\ ~call.valid) => Refused

\* C35: every request other than a preflight (OPTIONS) to a protected endpoint
\* without a valid token is answered 401 "unauthorized"; no request without a
\* valid token, preflight or not, runs a protected endpoint's handler; and the
\* OAuth callback never answers 401.
C35_AuthEnforced ==
    call.op = "ServeHTTP" =>
        /\ (Protected /\ ~call.valid /\ call.method # "OPTIONS") => Refused
        /\ (Protected /\ ~call.valid) => call.handler = "none"
        /\ call.path = <<"api", "auth", "github">> => call.resp.code # 401

\* An ingest request carrying a token signed under another secret is refused.
C35_Witness ==
    /\ call.op = "ServeHTTP"
    /\ call.path = <<"api", "repos", "ingest">>
    /\ call.method = "POST"
    /\ call.token # NULL
    /\ Len(call.token) = 3
    /\ ~call.valid
    /\ Refused

Increasing(seq) == \A i, j \in 1..Len(seq) : i < j => seq[i] < seq[j]

Range(seq) == {seq[i] : i \in 1..Len(seq)}

\* What a run has applied is in increasing order, above the version it read and
\* without a gap; a run returned without error has applied all of it.
MigrateOrder ==
    \A m \in MigrateRuns :
        LET run == schema.runs[m] IN
        /\ Increasing(run.done)
        /\ \E top \in run.currentVersion..Max(Versions) :
             Range(run.done) = {v \in Versions : v > run.currentVersion /\ v <= top}
        /\ (run.pc = "returned" /\ run.err = NULL) =>
             Range(run.done) = {v \in Versions : v > run.currentVersion}
        /\ run.currentVersion = Max(Versions) => run.done = <<>>

\* A step of run m.
StepOf(m) == schema'.runs[m] # schema.runs[m]

\* A step applies a migration exactly when it records its version, which was
\* not recorded; a step in which a run gets its error changes neither and ends
\* the run; a run that read the last version changes neither; a run returns
\* without error only with every version recorded.
MigrateStep ==
    \A m \in MigrateRuns : StepOf(m) =>
        /\ \A v \in Versions :
             /\ schema'.applied[v] \in {schema.applied[v], schema.applied[v] + 1}
             /\ schema'.applied[v] # schema.applied[v]
                  <=> (v \notin schema.versions /\ v \in schema'.versions)
        /\ schema.versions \subseteq schema'.versions
        /\ Cardinality(schema'.versions \ schema.versions) <= 1
        /\ (schema'.runs[m].err # NULL) =>
             /\ schema'.applied = schema.applied
             /\ schema'.versions = schema.versions
             /\ schema'.runs[m].pc = "returned"
        /\ schema.runs[m].currentVersion = Max(Versions) =>
             /\ schema'.applied = schema.applied
             /\ schema'.versions = schema.versions
        /\ (schema'.runs[m].pc = "returned" /\ schema'.runs[m].err = NULL) =>
             schema'.versions = Versions

\* C40: Migrate applies the pending migrations in increasing version order,
\* each in one step with its version record and only when that version is not
\* recorded; a failed migration records nothing and ends the run with an
\* error; a run after a successful one applies nothing and leaves the recorded
\* versions as they are.
C40_Migrate == []MigrateOrder /\ [][MigrateStep]_vars

\* One run stopped by a failure at migration 3, and the next run, which read
\* version 2, applied the rest and returned without error; each migration has
\* been applied once.
C40_Witness ==
    /\ schema.runs[1].pc = "returned" /\ schema.runs[1].err # NULL
    /\ schema.runs[1].done = <<1, 2>>
    /\ schema.runs[2].pc = "returned" /\ schema.runs[2].err = NULL
    /\ schema.runs[2].currentVersion = 2
    /\ schema.runs[2].done = <<3, 4, 5, 6>>
    /\ \A v \in Versions : schema.applied[v] = 1

====
